---------------------------- MODULE Spec2Model ----------------------------
(***************************************************************************)
(* SmartResume: the text sanitizer, the resume PDF renderer and the        *)
(* builder / cover-letter pages that call it.                              *)
(*                                                                         *)
(* A Python string is the sequence of its code points.  The PDF is the     *)
(* sequence of calls made on the FPDF canvas (cell, multi_cell, ln, line). *)
(***************************************************************************)
EXTENDS Integers, Sequences, FiniteSets, TLC

VARIABLES
    text,           \* sanitize_text: the argument
    once,           \* sanitize_text(text)
    twice,          \* sanitize_text(sanitize_text(text))
    san_pc,         \* "idle", or "input" -> "once" -> "twice"
    resume_data,    \* generate_resume_pdf: the argument
    canvas,         \* the calls made on the FPDF canvas by the last render
    pdf_pc,         \* "idle", or "ready" -> "done" | "raised"
    session_state,  \* st.session_state: the form fields and lists
    saved_resumes,  \* st.session_state['saved_resumes']
    saved_cover_letters,    \* st.session_state['saved_cover_letters']
    page,           \* what the current script run has put on the page
    provider,       \* generate_with_retry: the client it runs in
    max_retries,    \* generate_with_retry: the argument
    attempt,        \* generate_with_retry: the loop variable
    responses,      \* what the provider did at each generate_content call so far
    sleeps,         \* the arguments of the time.sleep calls so far
    result,         \* generate_with_retry: the local `result`
    retry_pc,       \* "idle", or "loop" -> "returned"
    fn_name,        \* generate_filename: the argument
    fn_result,      \* generate_filename(fn_name)
    fn_pc,          \* "idle", or "input" -> "done"
    cl_args,        \* generate_cover_letter_pdf: the arguments
    cl_clock,       \* what datetime.now().strftime("%B %d, %Y") gives at the moment
    cl_first,       \* the canvas calls of a first call with cl_args
    cl_second,      \* the canvas calls of a second call with cl_args
    cl_pc,          \* "idle", or "ready" -> "once" -> "twice"
    preview_html,   \* render_resume_preview: the elements of the HTML it builds
    preview_pc,     \* "idle", or "ready" -> "shown"
    st_blob,        \* the JSON text export_all_data returned last
    st_at_export,   \* saved_resumes and saved_cover_letters when it was exported
    st_import_ok,   \* what import_data returned last
    st_pc,          \* "idle", or "store" -> "exported" -> "imported"
    env,            \* os.environ, and what initialising each provider's client does
    ai_client,      \* AIClient: self.client and self.provider
    ai_error,       \* the exception AIClient() raised, "" if none
    is_available,   \* AIGenerator.is_available
    gen_log,        \* the generate_content calls made so far: what for, and the reply
    gen_pc,         \* "idle", or where the script run is
    ls_call,        \* the last LocalStorage call: its name, arguments, result, and
                    \* the two saved lists before it
    ls_clock        \* the number of datetime.now() readings so far

sanVars == <<text, once, twice, san_pc>>
pdfVars == <<resume_data, canvas, pdf_pc>>
appVars == <<session_state, saved_resumes, saved_cover_letters, page>>
aiVars == <<provider, max_retries, attempt, responses, sleeps, result, retry_pc>>
fnVars == <<fn_name, fn_result, fn_pc>>
clVars == <<cl_args, cl_clock, cl_first, cl_second, cl_pc>>
pvVars == <<preview_html, preview_pc>>
stVars == <<st_blob, st_at_export, st_import_ok, st_pc>>
genVars == <<env, ai_client, ai_error, is_available, gen_log, gen_pc>>
lsVars == <<ls_call, ls_clock>>
extVars == <<aiVars, fnVars, clVars, pvVars, stVars, genVars, lsVars>>
coreVars == <<sanVars, pdfVars, appVars>>
exceptAi == <<coreVars, fnVars, clVars, pvVars, stVars, genVars, lsVars>>
exceptFn == <<coreVars, aiVars, clVars, pvVars, stVars, genVars, lsVars>>
exceptCl == <<coreVars, aiVars, fnVars, pvVars, stVars, genVars, lsVars>>
exceptPv == <<coreVars, aiVars, fnVars, clVars, stVars, genVars, lsVars>>
exceptSt == <<sanVars, pdfVars, session_state, page, aiVars, fnVars, clVars, pvVars,
             genVars, lsVars>>
exceptGen == <<sanVars, pdfVars, saved_resumes, saved_cover_letters, aiVars, fnVars,
              clVars, pvVars, stVars, lsVars>>
exceptLs == <<sanVars, pdfVars, aiVars, fnVars, clVars, pvVars, stVars, genVars>>
vars == <<text, once, twice, san_pc, resume_data, canvas, pdf_pc,
          session_state, saved_resumes, saved_cover_letters, page,
          provider, max_retries, attempt, responses, sleeps, result, retry_pc,
          fn_name, fn_result, fn_pc, cl_args, cl_clock, cl_first, cl_second, cl_pc,
          preview_html, preview_pc, st_blob, st_at_export, st_import_ok, st_pc,
          env, ai_client, ai_error, is_available, gen_log, gen_pc, ls_call, ls_clock>>

(***************************************************************************)
(* Bounds                                                                  *)
(***************************************************************************)
MaxLen == 6         \* longest string handed to sanitize_text
MaxEntries == 3     \* entries in the three lists of a record handed to the renderer
MaxFormEntries == 1 \* entries the forms add to a list of the session

(***************************************************************************)
(* Code points                                                             *)
(***************************************************************************)
STAR == 42
UNDERSCORE == 95
QUESTION == 63
LATIN1_LIMIT == 256

\* Python's None, kept apart from every string: no string holds the code point -1.
None == <<-1>>

\* `not x` of Python for a string, a list or None.
Falsy(x) == x = None \/ x = <<>>

(***************************************************************************)
(* sanitize_text (components/pdf_exporter.py)                              *)
(***************************************************************************)
\* The first index >= i of text holding marker, or Len(text)+1.
RECURSIVE RunEnd(_, _, _)
RunEnd(s, i, marker) ==
    IF i > Len(s) \/ s[i] = marker THEN i ELSE RunEnd(s, i + 1, marker)

\* marker{n} stands at index i of s.
MarkerAt(s, i, marker, n) ==
    /\ i + n - 1 <= Len(s)
    /\ \A k \in 0..(n - 1) : s[i + k] = marker

\* re.sub(marker{n}([^marker]+)marker{n}, \1, s) from index i on: leftmost match
\* first, the group is the whole run of non-marker characters, the scan
\* resumes after the closing marker.
RECURSIVE SubFrom(_, _, _, _)
SubFrom(s, i, marker, n) ==
    IF i > Len(s) THEN <<>>
    ELSE LET j == RunEnd(s, i + n, marker)
         IN  IF MarkerAt(s, i, marker, n) /\ j > i + n /\ MarkerAt(s, j, marker, n)
             THEN SubSeq(s, i + n, j - 1) \o SubFrom(s, j + n, marker, n)
             ELSE <<s[i]>> \o SubFrom(s, i + 1, marker, n)

\* A string without the marker has no match and comes back as it is.
StripEmphasis(s, marker, n) ==
    IF \A i \in 1..Len(s) : s[i] # marker THEN s ELSE SubFrom(s, 1, marker, n)

\* The four re.sub calls, in the code's order: **bold**, *italic*, __bold__, _italic_.
StripMarkdown(s) ==
    StripEmphasis(StripEmphasis(StripEmphasis(StripEmphasis(s, STAR, 2), STAR, 1),
                                UNDERSCORE, 2), UNDERSCORE, 1)

\* The replacements dict, in insertion order.
replacements ==
    << <<8211, <<45>>>>,      \* en dash
       <<8212, <<45, 45>> (* "--" *)>>,     \* em dash
       <<8216, <<39>>>>,      \* left single quote
       <<8217, <<39>>>>,      \* right single quote
       <<8220, <<34>>>>,    \* left double quote
       <<8221, <<34>>>>,    \* right double quote
       <<8226, <<45>>>>,      \* bullet
       <<8230, <<46, 46, 46>> (* "..." *)>>,    \* ellipsis
       <<160, <<32>>>>,       \* non-breaking space
       <<8482, <<40, 84, 77, 41>>>>,   \* trademark
       <<174, <<40, 82, 41>>>>,     \* registered trademark
       <<169, <<40, 99, 41>>>> >>   \* copyright

\* str.replace(ch, rep)
RECURSIVE Replace(_, _, _)
Replace(s, ch, rep) ==
    IF \A i \in 1..Len(s) : s[i] # ch THEN s
    ELSE (IF Head(s) = ch THEN rep ELSE <<Head(s)>>) \o Replace(Tail(s), ch, rep)

\* for unicode_char, replacement in replacements.items(): text = text.replace(...)
RECURSIVE ApplyReplacements(_, _)
ApplyReplacements(s, k) ==
    IF k > Len(replacements) THEN s
    ELSE ApplyReplacements(Replace(s, replacements[k][1], replacements[k][2]), k + 1)

\* ''.join(char if ord(char) < 256 else '?' for char in text)
ToLatin1Mutant(s) == s
ToLatin1(s) == [i \in 1..Len(s) |-> IF s[i] < LATIN1_LIMIT THEN s[i] ELSE QUESTION]

IsLatin1(s) == \A i \in 1..Len(s) : s[i] < LATIN1_LIMIT

\* Every key of replacements is 160 or above: a string below that is left as it is.
ReplaceAll(s) ==
    IF \A i \in 1..Len(s) : s[i] < 160 THEN s ELSE ApplyReplacements(s, 1)

sanitize_text(t) ==
    IF Falsy(t) THEN <<>>
    ELSE ToLatin1(ReplaceAll(StripMarkdown(t)))

(***************************************************************************)
(* String helpers (Python str methods used by the renderer)                *)
(***************************************************************************)
\* str.isspace() for one character.
IsSpace(c) ==
    c \in {9, 10, 11, 12, 13, 28, 29, 30, 31, 32, 133, 160, 5760, 8232, 8233, 8239, 8287, 12288}
    \/ (c >= 8192 /\ c <= 8202)

RECURSIVE LStrip(_)
LStrip(s) == IF s # <<>> /\ IsSpace(Head(s)) THEN LStrip(Tail(s)) ELSE s

RECURSIVE RStrip(_)
RStrip(s) ==
    IF s # <<>> /\ IsSpace(s[Len(s)]) THEN RStrip(SubSeq(s, 1, Len(s) - 1)) ELSE s

\* str.strip()
Strip(s) == RStrip(LStrip(s))

\* str.split(sep) for a one-character separator: always at least one piece.
RECURSIVE Split(_, _)
Split(s, sep) ==
    LET j == RunEnd(s, 1, sep)
    IN  IF j > Len(s) THEN <<s>>
        ELSE <<SubSeq(s, 1, j - 1)>> \o Split(SubSeq(s, j + 1, Len(s)), sep)

\* sep.join(parts)
RECURSIVE Join(_, _)
Join(parts, sep) ==
    IF parts = <<>> THEN <<>>
    ELSE IF Len(parts) = 1 THEN parts[1]
    ELSE parts[1] \o sep \o Join(Tail(parts), sep)

RECURSIVE Flatten(_)
Flatten(seqs) == IF seqs = <<>> THEN <<>> ELSE Head(seqs) \o Flatten(Tail(seqs))

\* [x for x in parts if x]
RECURSIVE NonEmpty(_)
NonEmpty(parts) ==
    IF parts = <<>> THEN <<>>
    ELSE (IF Head(parts) # <<>> THEN <<Head(parts)>> ELSE <<>>) \o NonEmpty(Tail(parts))

\* str(n) of a non-negative int, as an f-string formats it.
RECURSIVE DecStr(_)
DecStr(n) == IF n < 10 THEN <<48 + n>> ELSE DecStr(n \div 10) \o <<48 + (n % 10)>>

\* str.upper() of one Latin-1 character: it is applied to sanitized text only.
UpperChar(c) ==
    IF c >= 97 /\ c <= 122 THEN <<c - 32>>
    ELSE IF c >= 224 /\ c <= 254 /\ c # 247 THEN <<c - 32>>
    ELSE IF c = 223 THEN <<83, 83>> (* "SS" *)          \* sharp s
    ELSE IF c = 181 THEN <<924>>        \* micro sign -> GREEK CAPITAL MU
    ELSE IF c = 255 THEN <<376>>        \* y diaeresis -> its capital, outside Latin-1
    ELSE <<c>>

\* Only the sharp s changes the length.
Upper(s) ==
    IF \A i \in 1..Len(s) : s[i] # 223
    THEN [i \in 1..Len(s) |-> UpperChar(s[i])[1]]
    ELSE Flatten([i \in 1..Len(s) |-> UpperChar(s[i])])

\* dict.get(key, default)
Get(d, key, default) == IF key \in DOMAIN d THEN d[key] ELSE default

\* split_skills_string (utils/helpers.py)
split_skills_string(skills_string) ==
    IF Falsy(skills_string) THEN <<>>
    ELSE LET pieces == Split(skills_string, 44)
         IN  NonEmpty([i \in 1..Len(pieces) |-> Strip(pieces[i])])

(***************************************************************************)
(* ResumePDF (components/pdf_exporter.py): each method is the sequence of  *)
(* canvas calls it makes.  sec and entry say which section of              *)
(* generate_resume_pdf, and which list entry, made the call; src is the    *)
(* data field the text comes from; h is a height in tenths of a mm.        *)
(***************************************************************************)
Op(prim, sec, entry, kind, src, txt, h) ==
    [prim |-> prim, sec |-> sec, entry |-> entry, kind |-> kind, src |-> src,
     txt |-> txt, h |-> h]

Ln(sec, entry, h) == Op("ln", sec, entry, "ln", "", <<>>, h)

header_section(name, email, phone, location, linkedin, portfolio) ==
    LET n == sanitize_text(name)
        e == sanitize_text(email)
        p == sanitize_text(phone)
        l == sanitize_text(location)
        li == sanitize_text(linkedin)
        po == sanitize_text(portfolio)
        contact_line_1 == e \o <<32, 124, 32>> (* " | " *) \o p \o <<32, 124, 32>> (* " | " *) \o l
        links == (IF li # <<>> THEN <<li>> ELSE <<>>) \o (IF po # <<>> THEN <<po>> ELSE <<>>)
    IN  << Op("cell", "header", 0, "name", "name", Upper(n), 100),
           Op("cell", "header", 0, "contact", "email", contact_line_1, 50) >>
        \o (IF li # <<>> \/ po # <<>>
            THEN <<Op("cell", "header", 0, "links", "linkedin", Join(links, <<32, 124, 32>> (* " | " *)), 50)>>
            ELSE <<>>)
        \o <<Ln("header", 0, 50)>>

section_title(sec, title) ==
    << Op("cell", sec, 0, "heading", "", Upper(sanitize_text(title)), 60),
       Op("line", sec, 0, "rule", "", <<>>, 0),
       Ln(sec, 0, 30) >>

add_text(sec, src, t) ==
    << Op("multi_cell", sec, 0, "text", src, sanitize_text(t), 50), Ln(sec, 0, 20) >>

add_bullet_point(sec, entry, src, t) ==
    << Op("cell", sec, entry, "dash", "", <<45>>, 50),
       Op("multi_cell", sec, entry, "bullet", src, sanitize_text(t), 50) >>

add_subsection(sec, entry, title, meta) ==
    LET m == sanitize_text(meta)
    IN  <<Op("multi_cell", sec, entry, "subtitle", "", sanitize_text(title), 50)>>
        \o (IF m # <<>> THEN <<Op("multi_cell", sec, entry, "meta", "", m, 50)>> ELSE <<>>)

(***************************************************************************)
(* generate_resume_pdf, section by section                                 *)
(***************************************************************************)
HeaderSection(rd) ==
    header_section(Get(rd, "name", <<89, 111, 117, 114, 32, 78, 97, 109, 101>> (* "Your Name" *)),
                   Get(rd, "email", <<101, 109, 97, 105, 108, 64, 101, 120, 97, 109, 112, 108, 101, 46, 99, 111, 109>> (* "email@example.com" *)),
                   Get(rd, "phone", <<43, 57, 49, 45, 88, 88, 88, 88, 88, 88, 88, 88, 88, 88>> (* "+91-XXXXXXXXXX" *)),
                   Get(rd, "location", <<67, 105, 116, 121, 44, 32, 67, 111, 117, 110, 116, 114, 121>> (* "City, Country" *)),
                   Get(rd, "linkedin", <<>>),
                   Get(rd, "portfolio", <<>>))

SummarySection(rd) ==
    LET summary == Get(rd, "summary", <<>>)
    IN  IF ~Falsy(summary)
        THEN section_title("professional_summary", <<80, 114, 111, 102, 101, 115, 115, 105, 111, 110, 97, 108, 32, 83, 117, 109, 109, 97, 114, 121>> (* "Professional Summary" *))
             \o add_text("professional_summary", "summary", summary)
             \o <<Ln("professional_summary", 0, 30)>>
        ELSE <<>>

EducationEntry(edu, i) ==
    LET title == edu.degree \o <<32, 105, 110, 32>> (* " in " *) \o edu.field
        status == Get(edu, "status", "Completed")
        status_label == IF status = "Completed" THEN <<71, 114, 97, 100, 117, 97, 116, 101, 100>> (* "Graduated" *) ELSE <<69, 120, 112, 101, 99, 116, 101, 100>> (* "Expected" *)
        meta == edu.institution \o <<32, 124, 32>> (* " | " *) \o status_label \o <<58, 32>> (* ": " *) \o DecStr(edu.year)
                \o <<32, 124, 32, 71, 114, 97, 100, 101, 58, 32>> (* " | Grade: " *) \o edu.grade
    IN  add_subsection("education", i, title, meta) \o <<Ln("education", i, 20)>>

EducationSection(rd) ==
    LET education_list == Get(rd, "education_list", <<>>)
    IN  IF education_list # <<>>
        THEN section_title("education", <<69, 100, 117, 99, 97, 116, 105, 111, 110>> (* "Education" *))
             \o Flatten([i \in 1..Len(education_list) |-> EducationEntry(education_list[i], i)])
             \o <<Ln("education", 0, 20)>>
        ELSE <<>>

SkillsLine(src, label, skills) ==
    << Op("cell", "skills", 0, "label", "", label, 50),
       Op("multi_cell", "skills", 0, "text", src, Join(split_skills_string(skills), <<32, 45, 32>> (* " - " *)), 50),
       Ln("skills", 0, 20) >>

SkillsSection(rd) ==
    LET tech_skills == Get(rd, "technical_skills", <<>>)
        soft_skills == Get(rd, "soft_skills", <<>>)
    IN  IF ~Falsy(tech_skills) \/ ~Falsy(soft_skills)
        THEN section_title("skills", <<83, 107, 105, 108, 108, 115>> (* "Skills" *))
             \o (IF ~Falsy(tech_skills)
                 THEN SkillsLine("technical_skills", <<84, 101, 99, 104, 110, 105, 99, 97, 108, 32, 83, 107, 105, 108, 108, 115, 58>> (* "Technical Skills:" *), tech_skills)
                 ELSE <<>>)
             \o (IF ~Falsy(soft_skills)
                 THEN SkillsLine("soft_skills", <<83, 111, 102, 116, 32, 83, 107, 105, 108, 108, 115, 58>> (* "Soft Skills:" *), soft_skills)
                 ELSE <<>>)
             \o <<Ln("skills", 0, 20)>>
        ELSE <<>>

\* The meta line of an experience entry.
ExperienceMeta(exp) ==
    LET duration == exp.start_date \o <<32, 45, 32>> (* " - " *) \o exp.end_date
    IN  IF ~Falsy(Get(exp, "location", <<>>))
        THEN duration \o <<32, 124, 32>> (* " | " *) \o exp.location
        ELSE duration

\* Every piece between two full stops as a bullet, the blank ones too.
ResponsibilityBulletsUnfiltered(exp, i) ==
    LET resp_lines == Split(exp.responsibilities, 46)
    IN  Flatten([k \in 1..Len(resp_lines) |->
            add_bullet_point("work_experience", i, "responsibilities",
                             Strip(resp_lines[k]) \o <<46>>)])

ResponsibilityBullets(exp, i) ==
    LET resp_lines == Split(exp.responsibilities, 46)
    IN  Flatten([k \in 1..Len(resp_lines) |->
            LET line == Strip(resp_lines[k])
            IN  IF line # <<>>
                THEN add_bullet_point("work_experience", i, "responsibilities", line \o <<46>>)
                ELSE <<>>])

\* The body of an experience entry: bullet_points, else the split responsibilities.
ExperienceBodyBoth(exp, i) ==
    LET bullets == Get(exp, "bullet_points", <<>>)
    IN  Flatten([k \in 1..Len(bullets) |->
            add_bullet_point("work_experience", i, "bullet_points", bullets[k])])
        \o (IF ~Falsy(Get(exp, "responsibilities", <<>>))
            THEN ResponsibilityBullets(exp, i) ELSE <<>>)

ExperienceBody(exp, i) ==
    LET bullets == Get(exp, "bullet_points", <<>>)
    IN  IF bullets # <<>>
        THEN Flatten([k \in 1..Len(bullets) |->
                 add_bullet_point("work_experience", i, "bullet_points", bullets[k])])
        ELSE IF ~Falsy(Get(exp, "responsibilities", <<>>))
        THEN ResponsibilityBullets(exp, i)
        ELSE <<>>

ExperienceEntry(exp, i) ==
    LET title == exp.job_title \o <<32, 124, 32>> (* " | " *) \o exp.company
    IN  add_subsection("work_experience", i, title, ExperienceMeta(exp))
        \o ExperienceBody(exp, i)
        \o <<Ln("work_experience", i, 30)>>

\* A variant that walks the experience list from its last entry to its first.
ExperienceSectionReversed(rd) ==
    LET experience_list == Get(rd, "experience_list", <<>>)
        n == Len(experience_list)
    IN  IF experience_list # <<>>
        THEN section_title("work_experience", <<87, 111, 114, 107, 32, 69, 120, 112, 101, 114, 105, 101, 110, 99, 101>> (* "Work Experience" *))
             \o Flatten([i \in 1..n |->
                    ExperienceEntry(experience_list[n + 1 - i], n + 1 - i)])
             \o <<Ln("work_experience", 0, 20)>>
        ELSE <<>>

ExperienceSection(rd) ==
    LET experience_list == Get(rd, "experience_list", <<>>)
    IN  IF experience_list # <<>>
        THEN section_title("work_experience", <<87, 111, 114, 107, 32, 69, 120, 112, 101, 114, 105, 101, 110, 99, 101>> (* "Work Experience" *))
             \o Flatten([i \in 1..Len(experience_list) |->
                    ExperienceEntry(experience_list[i], i)])
             \o <<Ln("work_experience", 0, 20)>>
        ELSE <<>>

\* The body of a project entry: bullet_points, else the description as one paragraph.
ProjectBody(proj, i) ==
    LET bullet_points == Get(proj, "bullet_points", <<>>)
        description == Get(proj, "description", <<>>)
    IN  IF bullet_points # <<>>
        THEN Flatten([k \in 1..Len(bullet_points) |->
                 add_bullet_point("projects", i, "bullet_points", bullet_points[k])])
        ELSE IF ~Falsy(description)
        THEN <<Op("multi_cell", "projects", i, "paragraph", "description", description, 50)>>
        ELSE <<>>

ProjectEntry(proj, i) ==
    LET meta_parts ==
            (IF ~Falsy(Get(proj, "duration", <<>>)) THEN <<proj.duration>> ELSE <<>>)
            \o (IF ~Falsy(Get(proj, "technologies", <<>>))
                THEN <<<<84, 101, 99, 104, 110, 111, 108, 111, 103, 105, 101, 115, 58, 32>> (* "Technologies: " *) \o proj.technologies>> ELSE <<>>)
        meta == IF meta_parts # <<>> THEN Join(meta_parts, <<32, 124, 32>> (* " | " *)) ELSE <<>>
    IN  add_subsection("projects", i, proj.title, meta)
        \o ProjectBody(proj, i)
        \o (IF ~Falsy(Get(proj, "url", <<>>))
            THEN <<Op("multi_cell", "projects", i, "url", "url", <<85, 82, 76, 58, 32>> (* "URL: " *) \o proj.url, 50)>>
            ELSE <<>>)
        \o <<Ln("projects", i, 30)>>

ProjectsSection(rd) ==
    LET projects_list == Get(rd, "projects_list", <<>>)
    IN  IF projects_list # <<>>
        THEN section_title("projects", <<80, 114, 111, 106, 101, 99, 116, 115>> (* "Projects" *))
             \o Flatten([i \in 1..Len(projects_list) |-> ProjectEntry(projects_list[i], i)])
             \o <<Ln("projects", 0, 20)>>
        ELSE <<>>

CertificationsSection(rd) ==
    LET certifications == Get(rd, "certifications", <<>>)
        cert_lines == Split(certifications, 10)
    IN  IF ~Falsy(certifications)
        THEN section_title("certifications", <<67, 101, 114, 116, 105, 102, 105, 99, 97, 116, 105, 111, 110, 115, 32, 38, 32, 65, 99, 104, 105, 101, 118, 101, 109, 101, 110, 116, 115>> (* "Certifications & Achievements" *))
             \o Flatten([k \in 1..Len(cert_lines) |->
                    LET cert == Strip(cert_lines[k])
                    IN  IF cert # <<>>
                        THEN add_bullet_point("certifications", 0, "certifications", cert)
                        ELSE <<>>])
             \o <<Ln("certifications", 0, 20)>>
        ELSE <<>>

\* Every canvas call generate_resume_pdf makes when none of them raises.
ResumeCallsSkillsFirst(rd) ==
    HeaderSection(rd) \o SummarySection(rd) \o SkillsSection(rd) \o EducationSection(rd)
    \o ExperienceSection(rd) \o ProjectsSection(rd) \o CertificationsSection(rd)

ResumeCalls(rd) ==
    HeaderSection(rd) \o SummarySection(rd) \o EducationSection(rd) \o SkillsSection(rd)
    \o ExperienceSection(rd) \o ProjectsSection(rd) \o CertificationsSection(rd)

\* FPDF's core fonts (Arial) are Latin-1: a cell or multi_cell whose text holds
\* another character raises an encoding exception.
EncodingError(op) == op.prim \in {"cell", "multi_cell"} /\ ~IsLatin1(op.txt)

RECURSIVE FirstRaise(_, _)
FirstRaise(ops, i) ==
    IF i > Len(ops) THEN 0
    ELSE IF EncodingError(ops[i]) THEN i
    ELSE FirstRaise(ops, i + 1)

\* A render that sets out to make the calls ops: the calls made, up to and
\* including the first that raises, and whether one raised (then no bytes are
\* returned).
Painted(ops) ==
    LET r == FirstRaise(ops, 1)
    IN  [raised |-> r > 0, calls |-> IF r = 0 THEN ops ELSE SubSeq(ops, 1, r)]

generate_resume_pdf(rd) == Painted(ResumeCalls(rd))

(***************************************************************************)
(* create_download_button, generate_cover_letter_pdf and                   *)
(* create_cover_letter_download_button (components/pdf_exporter.py)        *)
(***************************************************************************)
\* str.isalnum() for one character of Latin-1.
IsAlnum(c) ==
    \/ (c >= 48 /\ c <= 57) \/ (c >= 65 /\ c <= 90) \/ (c >= 97 /\ c <= 122)
    \/ c \in {170, 178, 179, 181, 185, 186, 188, 189, 190}
    \/ (c >= 192 /\ c <= 255 /\ c # 215 /\ c # 247)

\* str.split(): the runs of non-whitespace characters.
RECURSIVE SplitWhitespace(_)
SplitWhitespace(s) ==
    LET t == LStrip(s)
        NextSpace[i \in 1..(Len(t) + 1)] ==
            IF i > Len(t) \/ IsSpace(t[i]) THEN i ELSE NextSpace[i + 1]
    IN  IF t = <<>> THEN <<>>
        ELSE <<SubSeq(t, 1, NextSpace[1] - 1)>>
             \o SplitWhitespace(SubSeq(t, NextSpace[1], Len(t)))

\* A variant of `c if c.isalnum() or c.isspace() else ''` that keeps every character.
generate_filename_keep_all(name) ==
    Join(SplitWhitespace(name), <<95>>) \o <<95, 82, 101, 115, 117, 109, 101, 46, 112, 100, 102>> (* "_Resume.pdf" *)

\* generate_filename (utils/helpers.py)
generate_filename(name) ==
    LET Keep(c) == IsAlnum(c) \/ IsSpace(c)
        filename == SelectSeq(name, Keep)
    IN  Join(SplitWhitespace(filename), <<95>>) \o <<95, 82, 101, 115, 117, 109, 101, 46, 112, 100, 102>> (* "_Resume.pdf" *)

\* A variant of str.split(sep) that splits at every first character of sep.
SplitOnFirstChar(s, sep) == Split(s, sep[1])

\* str.split(sep) for a separator of any length: leftmost matches, no overlap.
RECURSIVE SplitOn(_, _)
SplitOn(s, sep) ==
    LET n == Len(sep)
        At(i) == i + n - 1 <= Len(s) /\ SubSeq(s, i, i + n - 1) = sep
        hits == {i \in 1..Len(s) : At(i)}
    IN  IF hits = {} THEN <<s>>
        ELSE LET i == CHOOSE h \in hits : \A g \in hits : h <= g
             IN  <<SubSeq(s, 1, i - 1)>> \o SplitOn(SubSeq(s, i + n, Len(s)), sep)

\* What a function of the exporter returns for the bytes of a PDF: the PDF is
\* the complete sequence of canvas calls it was written from.
NoBytes == [none |-> TRUE]
Bytes(calls) == [pdf |-> calls]

\* try: return pdf_bytes, filename / except Exception: return None, None, for
\* a render r; filename is what the filename derivation gives after it.
TryExceptPartial(r, filename) ==
    [raised |-> r.raised, calls |-> r.calls, pdf_bytes |-> Bytes(r.calls),
     filename |-> IF r.raised THEN None ELSE filename]

TryExcept(r, filename) ==
    IF r.raised
    THEN [raised |-> TRUE, calls |-> r.calls, pdf_bytes |-> NoBytes, filename |-> None]
    ELSE [raised |-> FALSE, calls |-> r.calls, pdf_bytes |-> Bytes(r.calls),
          filename |-> filename]

create_download_button(rd) ==
    TryExcept(generate_resume_pdf(rd), generate_filename(Get(rd, "name", <<82, 101, 115, 117, 109, 101>> (* "Resume" *))))

\* Every canvas call generate_cover_letter_pdf makes when none of them raises;
\* today is datetime.now().strftime("%B %d, %Y").
CoverLetterCalls(name, email, phone, location, company, job_title, cover_letter_content, today) ==
    LET sec == "cover_letter"
        contact_line == sanitize_text(email) \o <<32, 124, 32>> (* " | " *) \o sanitize_text(phone)
                        \o (IF ~Falsy(location) THEN <<32, 124, 32>> (* " | " *) \o sanitize_text(location)
                            ELSE <<>>)
        subject == <<82, 101, 58, 32, 65, 112, 112, 108, 105, 99, 97, 116, 105, 111, 110, 32, 102, 111, 114, 32>> (* "Re: Application for " *) \o sanitize_text(job_title)
        clean_content == sanitize_text(cover_letter_content)
        paragraphs == SplitOn(clean_content, <<10, 10>>)
    IN  << Op("cell", sec, 0, "name", "name", sanitize_text(name), 60),
           Op("cell", sec, 0, "contact", "email", contact_line, 50),
           Ln(sec, 0, 100),
           Op("cell", sec, 0, "date", "", today, 50),
           Ln(sec, 0, 30),
           Op("cell", sec, 0, "recipient", "", <<72, 105, 114, 105, 110, 103, 32, 77, 97, 110, 97, 103, 101, 114>> (* "Hiring Manager" *), 50) >>
        \o (IF ~Falsy(company)
            THEN <<Op("cell", sec, 0, "company", "cl_company", sanitize_text(company), 50)>>
            ELSE <<>>)
        \o << Ln(sec, 0, 30),
              Op("cell", sec, 0, "subject", "cl_job_title", subject, 50),
              Ln(sec, 0, 30),
              Op("cell", sec, 0, "salutation", "", <<68, 101, 97, 114, 32, 72, 105, 114, 105, 110, 103, 32, 77, 97, 110, 97, 103, 101, 114, 44>> (* "Dear Hiring Manager," *), 50),
              Ln(sec, 0, 30) >>
        \o Flatten([k \in 1..Len(paragraphs) |->
               IF Strip(paragraphs[k]) # <<>>
               THEN << Op("multi_cell", sec, k, "paragraph", "cover_letter_content",
                          Strip(paragraphs[k]), 55),
                       Ln(sec, k, 25) >>
               ELSE <<>>])
        \o << Ln(sec, 0, 10),
              Op("cell", sec, 0, "closing", "", <<83, 105, 110, 99, 101, 114, 101, 108, 121, 44>> (* "Sincerely," *), 50),
              Ln(sec, 0, 20),
              Op("cell", sec, 0, "signature", "name", sanitize_text(name), 50) >>

generate_cover_letter_pdf(name, email, phone, location, company, job_title, cover_letter_content, today) ==
    Painted(CoverLetterCalls(name, email, phone, location, company, job_title,
                             cover_letter_content, today))

create_cover_letter_download_button(name, email, phone, location, company, job_title, cover_letter_content, today) ==
    LET safe_name == Replace(name, 32, <<UNDERSCORE>>)
        safe_job == Replace(job_title, 32, <<UNDERSCORE>>)
    IN  TryExcept(generate_cover_letter_pdf(name, email, phone, location, company,
                                            job_title, cover_letter_content, today),
                  <<67, 111, 118, 101, 114, 76, 101, 116, 116, 101, 114, 95>> (* "CoverLetter_" *) \o safe_name \o <<95>> \o safe_job \o <<46, 112, 100, 102>> (* ".pdf" *))

(***************************************************************************)
(* The session (app.py) before any interaction                             *)
(***************************************************************************)
\* initialize_session_state
initialize_session_state ==
    [theme |-> "light", name |-> <<>>, email |-> <<>>, phone |-> <<>>, linkedin |-> <<>>,
     location |-> <<>>, portfolio |-> <<>>, target_role |-> <<>>, experience_years |-> 0,
     summary |-> <<>>, education_list |-> <<>>, technical_skills |-> <<>>,
     soft_skills |-> <<>>, experience_list |-> <<>>, projects_list |-> <<>>,
     certifications |-> <<>>, cl_job_title |-> <<>>, cl_company |-> <<>>,
     cl_job_description |-> <<>>, cl_additional_notes |-> <<>>,
     cover_letter_content |-> <<>>]

\* What one script run shows: the handler that put something on the page,
\* whether it called a renderer, the (pdf_bytes, filename) it got, whether
\* st.download_button was drawn, and the st.error message.  A handler that ends
\* in st.rerun() leaves nothing: the page is drawn again from the session.
Output(handler, called, pdf_bytes, filename, offered, error) ==
    [handler |-> handler, called |-> called, pdf_bytes |-> pdf_bytes,
     filename |-> filename, offered |-> offered, error |-> error]

NoOutput == Output("", FALSE, NoBytes, None, FALSE, "")

IdleApp ==
    /\ session_state = initialize_session_state
    /\ saved_resumes = <<>>
    /\ saved_cover_letters = <<>>
    /\ page = NoOutput

(***************************************************************************)
(* The sanitizer on its own: every string of the alphabet up to MaxLen     *)
(***************************************************************************)
\* '*', '_', 'a', em dash (mapped to '--'), a CJK character (unmapped, >= 256)
SanAlphabet == {STAR, UNDERSCORE, 97, 8212, 20013}

StringsUpTo(alphabet, n) == UNION {[1..k -> alphabet] : k \in 0..n}

SanInputs == StringsUpTo(SanAlphabet, MaxLen) \cup {None}

IdleAi ==
    /\ provider = "" /\ max_retries = 0 /\ attempt = 0 /\ responses = <<>>
    /\ sleeps = <<>> /\ result = <<>> /\ retry_pc = "idle"

IdleFn == fn_name = <<>> /\ fn_result = <<>> /\ fn_pc = "idle"

IdleCl ==
    /\ cl_args = [name |-> <<>>] /\ cl_clock = <<>> /\ cl_first = <<>>
    /\ cl_second = <<>> /\ cl_pc = "idle"

IdlePv == preview_html = <<>> /\ preview_pc = "idle"

IdleSt ==
    /\ st_blob = <<>> /\ st_at_export = <<>> /\ st_import_ok = FALSE /\ st_pc = "idle"

\* self.client = None, self.provider = None
NoClient == [client |-> [cls |-> "None", model |-> "", raised |-> ""], provider |-> "None"]

IdleGen ==
    /\ env = <<>> /\ ai_client = NoClient /\ ai_error = "" /\ is_available = FALSE
    /\ gen_log = <<>> /\ gen_pc = "idle"

\* No LocalStorage call has been made.
NoCall == [op |-> "none", args |-> <<>>, returned |-> FALSE, before |-> <<>>]

IdleLs == ls_call = NoCall /\ ls_clock = 0

IdleExt == IdleAi /\ IdleFn /\ IdleCl /\ IdlePv /\ IdleSt /\ IdleGen /\ IdleLs

IdleSan == text = <<>> /\ once = <<>> /\ twice = <<>> /\ san_pc = "idle"

IdlePdf == resume_data = [name |-> <<>>] /\ canvas = <<>> /\ pdf_pc = "idle"

InitSan ==
    /\ text \in SanInputs
    /\ once = <<>>
    /\ twice = <<>>
    /\ san_pc = "input"
    /\ IdlePdf
    /\ IdleApp
    /\ IdleExt

Sanitize ==
    /\ san_pc = "input"
    /\ once' = sanitize_text(text)
    /\ san_pc' = "once"
    /\ UNCHANGED <<text, twice, pdfVars, appVars, extVars>>

SanitizeAgain ==
    /\ san_pc = "once"
    /\ twice' = sanitize_text(once)
    /\ san_pc' = "twice"
    /\ UNCHANGED <<text, once, pdfVars, appVars, extVars>>

NextSan == Sanitize \/ SanitizeAgain

SpecSan == InitSan /\ [][NextSan]_vars

\* C5: sanitize_text is idempotent: sanitize_text(sanitize_text(x)) = sanitize_text(x)
\* for every string x.
C5_Idempotent == san_pc = "twice" => twice = once

\* C6: the string returned by sanitize_text holds no code point >= 256, an empty
\* or None argument gives the empty string, an unmapped character >= 256 becomes
\* '?' and the em dash becomes '--'.
C6_Latin1Only ==
    san_pc # "input" =>
        /\ IsLatin1(once)
        /\ (Falsy(text) => once = <<>>)
        /\ (text # None /\ \A i \in 1..Len(text) : text[i] \notin {STAR, UNDERSCORE}) =>
              /\ Len(once) >= Len(text)
              /\ \A i \in 1..Len(text) :
                     LET before == SubSeq(text, 1, i - 1)
                         at == Len(sanitize_text(before)) + 1
                     IN  CASE text[i] = 20013 -> once[at] = QUESTION
                           [] text[i] = 8212 -> once[at] = 45 /\ once[at + 1] = 45
                           [] OTHER -> once[at] = text[i]

C6_Witness ==
    /\ san_pc = "once"
    /\ text = <<97, 20013, 8212>>
    /\ once = <<97, QUESTION, 45, 45>>

(***************************************************************************)
(* The renderer on its own: every resume record of a bounded family        *)
(***************************************************************************)
SeqsUpTo(S, n) == UNION {[1..k -> S] : k \in 0..n}

\* An entry as the education form appends it (no 'status' key).
EduFormEntry ==
    [degree |-> <<66, 46, 84, 101, 99, 104>> (* "B.Tech" *), field |-> <<67, 83>> (* "CS" *), institution |-> <<73, 73, 84>> (* "IIT" *), year |-> 2024,
     grade |-> <<57, 46, 49, 47, 49, 48, 46, 48>> (* "9.1/10.0" *), grade_type |-> <<67, 71, 80, 65>> (* "CGPA" *)]

\* An entry of a stored record that says the degree is still pursued.
EduPursuing ==
    [degree |-> <<77, 46, 83, 99>> (* "M.Sc" *), field |-> <<77, 97, 116, 104>> (* "Math" *), institution |-> <<65, 66, 67>> (* "ABC" *), year |-> 2027,
     grade |-> <<56, 48, 46, 48, 37>> (* "80.0%" *), grade_type |-> <<80, 101, 114, 99, 101, 110, 116, 97, 103, 101>> (* "Percentage" *), status |-> "Pursuing"]

\* An entry as the experience form appends it: bullet_points is empty.
ExpFormEntry ==
    [company |-> <<65, 99, 109, 101>> (* "Acme" *), job_title |-> <<68, 101, 118>> (* "Dev" *), location |-> <<>>,
     start_date |-> <<50, 48, 50, 49>> (* "2021" *), end_date |-> <<50, 48, 50, 51>> (* "2023" *), is_current |-> FALSE,
     responsibilities |-> <<68, 101, 118, 46, 32, 79, 112, 115>> (* "Dev. Ops" *), bullet_points |-> <<>>]

\* An entry after AI enhancement: bullet_points beside the responsibilities.
ExpEnhanced ==
    [company |-> <<66, 101, 116, 97>> (* "Beta" *), job_title |-> <<76, 101, 97, 100>> (* "Lead" *), location |-> <<80, 117, 110, 101>> (* "Pune" *),
     start_date |-> <<50, 48, 50, 51>> (* "2023" *), end_date |-> <<80, 114, 101, 115, 101, 110, 116>> (* "Present" *), is_current |-> TRUE,
     responsibilities |-> <<76, 101, 100, 32, 116, 101, 97, 109, 46>> (* "Led team." *),
     bullet_points |-> <<<<76, 101, 100, 32, 42, 42, 53, 42, 42>>, <<67, 117, 116, 32, 8212, 32, 50, 48, 37>>>>]

\* An entry as the projects form appends it: no bullet_points key.
ProjFormEntry ==
    [title |-> <<66, 111, 116>> (* "Bot" *), duration |-> <<>>, technologies |-> <<>>, url |-> <<>>,
     description |-> <<65, 32, 98, 111, 116, 46>> (* "A bot." *), enhanced_description |-> <<>>]

ProjWithBullets ==
    [title |-> <<83, 104, 111, 112>> (* "Shop" *), duration |-> <<50, 48, 50, 50>> (* "2022" *), technologies |-> <<71, 111>> (* "Go" *), url |-> <<115, 46, 105, 111>> (* "s.io" *),
     description |-> <<65, 32, 115, 104, 111, 112, 46>> (* "A shop." *), enhanced_description |-> <<>>,
     bullet_points |-> <<<<83, 111, 108, 100, 32, 51, 120>> (* "Sold 3x" *)>>]

EduEntries == {EduFormEntry, EduPursuing}
ExpEntries == {ExpFormEntry, ExpEnhanced}
ProjEntries == {ProjFormEntry, ProjWithBullets}

SummaryTexts == {<<>>, <<32>>, <<73, 115, 32, 42, 102, 97, 115, 116, 42>>}
\* technical_skills and soft_skills
SkillTexts ==
    { <<<<>>, <<>>>>, <<<<32, 44, 32>> (* " , " *), <<>>>>, <<<<71, 111, 44, 32, 67>> (* "Go, C" *), <<>>>>, <<<<>>, <<71, 114, 105, 116, 44, 87, 105, 116>> (* "Grit,Wit" *)>>,
      <<<<71, 111, 44, 32, 20013, 25991>>, <<71, 114, 105, 116, 44, 87, 105, 116>> (* "Grit,Wit" *)>> }
CertificationTexts == {<<>>, <<32, 10, 32>>, <<65, 87, 83, 10, 10, 32, 71, 67, 80, 32>>}

\* The record of the spec's end-to-end scenario: only name, email and one education entry.
JaneDoe ==
    [name |-> <<74, 97, 110, 101, 32, 68, 111, 101>> (* "Jane Doe" *), email |-> <<106, 97, 110, 101, 64, 120, 46, 99, 111, 109>> (* "jane@x.com" *), education_list |-> <<EduFormEntry>>]

\* The dict render_builder_page collects from the forms (every key present).
FormRecord(summary, education_list, tech, soft, experience_list, projects_list, certs) ==
    [name |-> <<74, 97, 110, 101, 32, 68, 111, 101>> (* "Jane Doe" *), email |-> <<106, 97, 110, 101, 64, 120, 46, 99, 111, 109>> (* "jane@x.com" *), phone |-> <<43, 57, 49, 45, 57, 56>> (* "+91-98" *),
     linkedin |-> <<>>, location |-> <<80, 117, 110, 101>> (* "Pune" *), portfolio |-> <<>>,
     target_role |-> <<>>, experience_years |-> 0, summary |-> summary,
     technical_skills |-> tech, soft_skills |-> soft,
     education_list |-> education_list, experience_list |-> experience_list,
     projects_list |-> projects_list, certifications |-> certs]

\* education_list, experience_list, projects_list: MaxEntries entries in all.
EntryLists ==
    { l \in SeqsUpTo(EduEntries, MaxEntries) \X SeqsUpTo(ExpEntries, MaxEntries)
              \X SeqsUpTo(ProjEntries, MaxEntries) :
        Len(l[1]) + Len(l[2]) + Len(l[3]) <= MaxEntries }

\* A record long enough to run over the first page: LongLen enhanced entries.
LongLen == 14

LongResume ==
    FormRecord(<<73, 115, 32, 42, 102, 97, 115, 116, 42>>, <<EduFormEntry>>, <<71, 111, 44, 32, 67>> (* "Go, C" *), <<>>,
               [i \in 1..LongLen |-> ExpEnhanced], <<>>, <<>>)

\* What the education form appends for a degree that is still pursued and
\* ends in 2027: the form has no field for the status, so there is no 'status' key.
EduFormPursued ==
    [degree |-> <<77, 46, 84, 101, 99, 104>> (* "M.Tech" *), field |-> <<65, 73>> (* "AI" *), institution |-> <<73, 73, 83, 99>> (* "IISc" *), year |-> 2027,
     grade |-> <<56, 46, 52, 47, 49, 48, 46, 48>> (* "8.4/10.0" *), grade_type |-> <<67, 71, 80, 65>> (* "CGPA" *)]

\* The record of a student who filled in the forms.
StudentResume ==
    [name |-> <<82, 97, 118, 105, 32, 82, 97, 111>> (* "Ravi Rao" *), email |-> <<114, 97, 118, 105, 64, 120, 46, 105, 110>> (* "ravi@x.in" *), education_list |-> <<EduFormPursued>>]

\* Entries as the experience form appends them: the responsibilities hold
\* two sentences, an empty piece between two full stops and a blank tail; or
\* nothing but a space.
ExpWordy ==
    [company |-> <<67, 111, 114, 101>> (* "Core" *), job_title |-> <<83, 82, 69>> (* "SRE" *), location |-> <<>>,
     start_date |-> <<50, 48, 49, 57>> (* "2019" *), end_date |-> <<50, 48, 50, 49>> (* "2021" *), is_current |-> FALSE,
     responsibilities |-> <<32, 66, 117, 105, 108, 116, 32, 42, 65, 80, 73, 115, 42, 46, 46, 32, 82, 97, 110, 32, 111, 112, 115, 32, 46, 32>>, bullet_points |-> <<>>]

ExpBlank ==
    [company |-> <<86, 111, 105, 100>> (* "Void" *), job_title |-> <<84, 101, 109, 112>> (* "Temp" *), location |-> <<>>,
     start_date |-> <<50, 48, 49, 56>> (* "2018" *), end_date |-> <<50, 48, 49, 57>> (* "2019" *), is_current |-> FALSE,
     responsibilities |-> <<32>>, bullet_points |-> <<>>]

WordyResume ==
    FormRecord(<<>>, <<EduFormEntry>>, <<>>, <<>>, <<ExpWordy, ExpBlank>>, <<>>, <<>>)

ResumeRecords ==
    {JaneDoe, LongResume, StudentResume, WordyResume} \cup
    { FormRecord(s, l[1], sk[1], sk[2], l[2], l[3], c) :
        s \in SummaryTexts, l \in EntryLists, sk \in SkillTexts,
        c \in CertificationTexts }

(***************************************************************************)
(* render_resume_preview (components/preview.py): the HTML as the sequence *)
(* of its text-bearing elements; the wrapping <div>s are left out          *)
(***************************************************************************)
El(cls, sec, entry, src, txt) ==
    [cls |-> cls, sec |-> sec, entry |-> entry, src |-> src, txt |-> txt]

PreviewHeader(rd) ==
    LET name == Get(rd, "name", <<89, 111, 117, 114, 32, 78, 97, 109, 101>> (* "Your Name" *))
        email == Get(rd, "email", <<101, 109, 97, 105, 108, 64, 101, 120, 97, 109, 112, 108, 101, 46, 99, 111, 109>> (* "email@example.com" *))
        phone == Get(rd, "phone", <<43, 57, 49, 45, 88, 88, 88, 88, 88, 88, 88, 88, 88, 88>> (* "+91-XXXXXXXXXX" *))
        location == Get(rd, "location", <<67, 105, 116, 121, 44, 32, 67, 111, 117, 110, 116, 114, 121>> (* "City, Country" *))
        contact_parts ==
            <<email, phone>>
            \o (IF ~Falsy(Get(rd, "linkedin", <<>>)) THEN <<<<76, 105, 110, 107, 101, 100, 73, 110>> (* "LinkedIn" *)>> ELSE <<>>)
            \o (IF ~Falsy(Get(rd, "portfolio", <<>>)) THEN <<<<80, 111, 114, 116, 102, 111, 108, 105, 111>> (* "Portfolio" *)>> ELSE <<>>)
            \o <<location>>
    IN  << El("preview-name", "header", 0, "name", Upper(name)),
           El("preview-contact", "header", 0, "email", Join(contact_parts, <<32, 124, 32>> (* " | " *))) >>

\* A variant that shows the summary only when it holds more than whitespace.
PreviewSummaryStripped(rd) ==
    LET summary == Get(rd, "summary", <<>>)
    IN  IF Strip(summary) # <<>>
        THEN << El("preview-section-title", "professional_summary", 0, "",
                   <<80, 82, 79, 70, 69, 83, 83, 73, 79, 78, 65, 76, 32, 83, 85, 77, 77, 65, 82, 89>> (* "PROFESSIONAL SUMMARY" *)),
                El("preview-content", "professional_summary", 0, "summary", summary) >>
        ELSE <<>>

PreviewSummary(rd) ==
    LET summary == Get(rd, "summary", <<>>)
    IN  IF ~Falsy(summary)
        THEN << El("preview-section-title", "professional_summary", 0, "",
                   <<80, 82, 79, 70, 69, 83, 83, 73, 79, 78, 65, 76, 32, 83, 85, 77, 77, 65, 82, 89>> (* "PROFESSIONAL SUMMARY" *)),
                El("preview-content", "professional_summary", 0, "summary", summary) >>
        ELSE <<>>

PreviewEducationEntry(edu, i) ==
    LET status == Get(edu, "status", "Completed")
        status_label == IF status = "Completed" THEN <<71, 114, 97, 100, 117, 97, 116, 101, 100>> (* "Graduated" *) ELSE <<69, 120, 112, 101, 99, 116, 101, 100>> (* "Expected" *)
    IN  << El("preview-subtitle", "education", i, "", edu.degree \o <<32, 105, 110, 32>> (* " in " *) \o edu.field),
           El("preview-meta", "education", i, "",
              edu.institution \o <<32, 124, 32>> (* " | " *) \o status_label \o <<58, 32>> (* ": " *) \o DecStr(edu.year)
              \o <<32, 124, 32, 71, 114, 97, 100, 101, 58, 32>> (* " | Grade: " *) \o edu.grade) >>

PreviewEducation(rd) ==
    LET education_list == Get(rd, "education_list", <<>>)
    IN  IF education_list # <<>>
        THEN <<El("preview-section-title", "education", 0, "", <<69, 68, 85, 67, 65, 84, 73, 79, 78>> (* "EDUCATION" *))>>
             \o Flatten([i \in 1..Len(education_list) |->
                    PreviewEducationEntry(education_list[i], i)])
        ELSE <<>>

PreviewSkillTags(src, label, skills) ==
    LET skills_list == split_skills_string(skills)
    IN  <<El("preview-subtitle", "skills", 0, "", label)>>
        \o [k \in 1..Len(skills_list) |->
               El("preview-skill-tag", "skills", 0, src, skills_list[k])]

PreviewSkills(rd) ==
    LET tech_skills == Get(rd, "technical_skills", <<>>)
        soft_skills == Get(rd, "soft_skills", <<>>)
    IN  IF ~Falsy(tech_skills) \/ ~Falsy(soft_skills)
        THEN <<El("preview-section-title", "skills", 0, "", <<83, 75, 73, 76, 76, 83>> (* "SKILLS" *))>>
             \o (IF ~Falsy(tech_skills)
                 THEN PreviewSkillTags("technical_skills", <<84, 101, 99, 104, 110, 105, 99, 97, 108, 32, 83, 107, 105, 108, 108, 115>> (* "Technical Skills" *), tech_skills)
                 ELSE <<>>)
             \o (IF ~Falsy(soft_skills)
                 THEN PreviewSkillTags("soft_skills", <<83, 111, 102, 116, 32, 83, 107, 105, 108, 108, 115>> (* "Soft Skills" *), soft_skills)
                 ELSE <<>>)
        ELSE <<>>

PreviewExperienceBody(exp, i) ==
    LET bullets == Get(exp, "bullet_points", <<>>)
        resp_lines == Split(exp.responsibilities, 46)
    IN  IF bullets # <<>>
        THEN [k \in 1..Len(bullets) |->
                 El("preview-bullet", "work_experience", i, "bullet_points",
                    <<8226, 32>> \o bullets[k])]
        ELSE IF ~Falsy(Get(exp, "responsibilities", <<>>))
        THEN Flatten([k \in 1..Len(resp_lines) |->
                 LET line == Strip(resp_lines[k])
                 IN  IF line # <<>>
                     THEN <<El("preview-bullet", "work_experience", i, "responsibilities",
                               <<8226, 32>> \o line \o <<46>>)>>
                     ELSE <<>>])
        ELSE <<>>

PreviewExperienceEntry(exp, i) ==
    LET duration == exp.start_date \o <<32, 45, 32>> (* " - " *) \o exp.end_date
    IN  << El("preview-subtitle", "work_experience", i, "",
              exp.job_title \o <<32, 124, 32>> (* " | " *) \o exp.company),
           El("preview-meta", "work_experience", i, "",
              IF ~Falsy(Get(exp, "location", <<>>))
              THEN duration \o <<32, 124, 32>> (* " | " *) \o exp.location ELSE duration) >>
        \o PreviewExperienceBody(exp, i)

PreviewExperience(rd) ==
    LET experience_list == Get(rd, "experience_list", <<>>)
    IN  IF experience_list # <<>>
        THEN <<El("preview-section-title", "work_experience", 0, "", <<87, 79, 82, 75, 32, 69, 88, 80, 69, 82, 73, 69, 78, 67, 69>> (* "WORK EXPERIENCE" *))>>
             \o Flatten([i \in 1..Len(experience_list) |->
                    PreviewExperienceEntry(experience_list[i], i)])
        ELSE <<>>

PreviewProjectEntry(proj, i) ==
    LET meta_parts ==
            (IF ~Falsy(Get(proj, "duration", <<>>)) THEN <<proj.duration>> ELSE <<>>)
            \o (IF ~Falsy(Get(proj, "technologies", <<>>))
                THEN <<<<84, 101, 99, 104, 58, 32>> (* "Tech: " *) \o proj.technologies>> ELSE <<>>)
        bullet_points == Get(proj, "bullet_points", <<>>)
        description == Get(proj, "description", <<>>)
    IN  <<El("preview-subtitle", "projects", i, "", proj.title)>>
        \o (IF meta_parts # <<>>
            THEN <<El("preview-meta", "projects", i, "", Join(meta_parts, <<32, 124, 32>> (* " | " *)))>>
            ELSE <<>>)
        \o (IF bullet_points # <<>>
            THEN [k \in 1..Len(bullet_points) |->
                     El("li", "projects", i, "bullet_points", bullet_points[k])]
            ELSE IF ~Falsy(description)
            THEN <<El("div", "projects", i, "description", description)>>
            ELSE <<>>)
        \o (IF ~Falsy(Get(proj, "url", <<>>))
            THEN <<El("preview-meta", "projects", i, "url", <<85, 82, 76, 58, 32>> (* "URL: " *) \o proj.url)>>
            ELSE <<>>)

PreviewProjects(rd) ==
    LET projects_list == Get(rd, "projects_list", <<>>)
    IN  IF projects_list # <<>>
        THEN <<El("preview-section-title", "projects", 0, "", <<80, 82, 79, 74, 69, 67, 84, 83>> (* "PROJECTS" *))>>
             \o Flatten([i \in 1..Len(projects_list) |->
                    PreviewProjectEntry(projects_list[i], i)])
        ELSE <<>>

PreviewCertifications(rd) ==
    LET certifications == Get(rd, "certifications", <<>>)
        cert_lines == Split(certifications, 10)
    IN  IF ~Falsy(certifications)
        THEN <<El("preview-section-title", "certifications", 0, "",
                  <<67, 69, 82, 84, 73, 70, 73, 67, 65, 84, 73, 79, 78, 83, 32, 38, 32, 65, 67, 72, 73, 69, 86, 69, 77, 69, 78, 84, 83>> (* "CERTIFICATIONS & ACHIEVEMENTS" *))>>
             \o Flatten([k \in 1..Len(cert_lines) |->
                    LET cert == Strip(cert_lines[k])
                    IN  IF cert # <<>>
                        THEN <<El("preview-bullet", "certifications", 0, "certifications",
                                  <<8226, 32>> \o cert)>>
                        ELSE <<>>])
        ELSE <<>>

render_resume_preview(rd) ==
    PreviewHeader(rd) \o PreviewSummary(rd) \o PreviewEducation(rd) \o PreviewSkills(rd)
    \o PreviewExperience(rd) \o PreviewProjects(rd) \o PreviewCertifications(rd)

InitPdf ==
    /\ resume_data \in ResumeRecords
    /\ canvas = <<>>
    /\ pdf_pc = "ready"
    /\ preview_html = <<>>
    /\ preview_pc = "ready"
    /\ IdleSan
    /\ IdleApp
    /\ IdleAi
    /\ IdleFn
    /\ IdleCl
    /\ IdleSt
    /\ IdleGen
    /\ IdleLs

\* One call of generate_resume_pdf(resume_data).
RenderResume ==
    /\ pdf_pc = "ready"
    /\ LET r == generate_resume_pdf(resume_data)
       IN  /\ canvas' = r.calls
           /\ pdf_pc' = IF r.raised THEN "raised" ELSE "done"
    /\ UNCHANGED <<resume_data, sanVars, appVars, extVars>>

\* One call of render_resume_preview(resume_data).
RenderPreview ==
    /\ preview_pc = "ready"
    /\ preview_html' = render_resume_preview(resume_data)
    /\ preview_pc' = "shown"
    /\ UNCHANGED <<pdfVars, exceptPv>>

NextPdf == RenderResume \/ RenderPreview

SpecPdf == InitPdf /\ [][NextPdf]_vars

\* ClassicTemplate.get_section_order (templates/classic_template.py)
get_section_order ==
    <<"professional_summary", "education", "skills", "work_experience", "projects",
      "certifications">>

\* The place of a section in the fixed order; the header comes before all of them.
SectionRank(sec) ==
    IF sec = "header" THEN 0
    ELSE CHOOSE k \in 1..Len(get_section_order) : get_section_order[k] = sec

\* The sections of a canvas in the order they are first painted.
RECURSIVE SectionSeq(_)
SectionSeq(ops) ==
    IF ops = <<>> THEN <<>>
    ELSE LET rest == SectionSeq(SubSeq(ops, 1, Len(ops) - 1))
             sec == ops[Len(ops)].sec
         IN  IF \E k \in 1..Len(rest) : rest[k] = sec THEN rest ELSE Append(rest, sec)

Rendered == pdf_pc \in {"done", "raised"}

SecOps(sec) == {i \in 1..Len(canvas) : canvas[i].sec = sec}

\* C1: the sections are painted in the fixed order Header, Professional Summary,
\* Education, Skills, Work Experience, Projects, Certifications whatever the data
\* is, and the record with only name, email and one education entry paints
\* exactly Header then Education.
C1_SectionOrder ==
    Rendered =>
        /\ \A j \in 2..Len(canvas) :
               SectionRank(canvas[j - 1].sec) <= SectionRank(canvas[j].sec)
        /\ (resume_data = JaneDoe => SectionSeq(canvas) = <<"header", "education">>)

C1_Witness ==
    /\ pdf_pc = "done"
    /\ resume_data = JaneDoe
    /\ SectionSeq(canvas) = <<"header", "education">>
    /\ \E i \in SecOps("education") : canvas[i].kind = "subtitle"

\* A text that is empty or holds only whitespace.
Blank(s) == Strip(s) = <<>>

\* No line of a text holds anything but whitespace.
NoLine(s) == \A k \in 1..Len(Split(s, 10)) : Blank(Split(s, 10)[k])

\* C2: a section whose source list is empty, or whose source text is empty or
\* only whitespace (or, for skills and certifications, yields no token or line
\* after trimming), gets no heading and no block.
C2_EmptySectionsOmitted ==
    Rendered =>
        /\ Blank(Get(resume_data, "summary", <<>>)) => SecOps("professional_summary") = {}
        /\ Get(resume_data, "education_list", <<>>) = <<>> => SecOps("education") = {}
        /\ (/\ split_skills_string(Get(resume_data, "technical_skills", <<>>)) = <<>>
            /\ split_skills_string(Get(resume_data, "soft_skills", <<>>)) = <<>>)
               => SecOps("skills") = {}
        /\ Get(resume_data, "experience_list", <<>>) = <<>> => SecOps("work_experience") = {}
        /\ Get(resume_data, "projects_list", <<>>) = <<>> => SecOps("projects") = {}
        /\ NoLine(Get(resume_data, "certifications", <<>>)) => SecOps("certifications") = {}

\* The texts of the calls of one kind made for entry i of a section, in order.
EntryTexts(ops, sec, i, kind) ==
    LET Mine(op) == op.sec = sec /\ op.entry = i /\ op.kind = kind
        mine == SelectSeq(ops, Mine)
    IN  [k \in 1..Len(mine) |-> mine[k].txt]

\* The data fields the calls made for entry i of a section take their text from.
EntrySources(sec, i) ==
    {canvas[k].src : k \in {n \in 1..Len(canvas) :
                                canvas[n].sec = sec /\ canvas[n].entry = i}} \ {""}

\* The body of entry i of a list is either its bullet_points or its free text.
EitherOr(list, sec, free) ==
    \A i \in 1..Len(list) :
        LET bullets == Get(list[i], "bullet_points", <<>>)
        IN  /\ bullets # <<>> =>
                /\ free \notin EntrySources(sec, i)
                /\ pdf_pc = "done" =>
                      EntryTexts(canvas, sec, i, "bullet")
                          = [k \in 1..Len(bullets) |-> sanitize_text(bullets[k])]
            /\ free \in EntrySources(sec, i) => bullets = <<>>

\* C3: an experience or project entry with non-empty bullet_points paints exactly
\* those bullets, in order, and nothing derived from responsibilities or
\* description; the free text is used only when bullet_points is empty or absent.
C3_BulletsOrFreeText ==
    Rendered =>
        /\ EitherOr(Get(resume_data, "experience_list", <<>>), "work_experience",
                    "responsibilities")
        /\ EitherOr(Get(resume_data, "projects_list", <<>>), "projects", "description")

C3_Witness ==
    /\ pdf_pc = "done"
    /\ Len(Get(resume_data, "experience_list", <<>>)) >= 1
    /\ resume_data.experience_list[1] = ExpEnhanced
    /\ EntryTexts(canvas, "work_experience", 1, "bullet") = <<<<76, 101, 100, 32, 53>> (* "Led 5" *), <<67, 117, 116, 32, 45, 45, 32, 50, 48, 37>> (* "Cut -- 20%" *)>>
    /\ Len(Get(resume_data, "projects_list", <<>>)) >= 1
    /\ resume_data.projects_list[1] = ProjFormEntry
    /\ EntrySources("projects", 1) = {"description"}

\* C7: every user-supplied string handed to cell or multi_cell has passed through
\* sanitize_text, so no character with code point 256 or above reaches the canvas
\* and no render aborts because of the characters of its input.
C7_OnlySanitizedTextPainted ==
    Rendered =>
        /\ pdf_pc # "raised"
        /\ \A i \in 1..Len(canvas) : IsLatin1(canvas[i].txt)

(***************************************************************************)
(* The builder and cover-letter pages: every interaction reruns the        *)
(* script, and what a click handler shows lasts for that run only.         *)
(***************************************************************************)
\* d[key] = val, for a key d may not have yet.
Put(d, key, val) == [k \in DOMAIN d \cup {key} |-> IF k = key THEN val ELSE d[k]]

\* del d[key]
Del(d, key) == [k \in DOMAIN d \ {key} |-> d[k]]

\* list.pop(idx) for a 1-based idx.
Pop(list, idx) == SubSeq(list, 1, idx - 1) \o SubSeq(list, idx + 1, Len(list))

\* A rerun forgets the render of the run before.
ForgetRender == resume_data' = [name |-> <<>>] /\ canvas' = <<>> /\ pdf_pc' = "idle"

\* The text widgets the model types into, and what it types.
TextInputs ==
    [name |-> {<<>>, <<74, 97, 110, 101, 32, 68, 111, 101>> (* "Jane Doe" *)},
     email |-> {<<>>, <<106, 97, 110, 101, 64, 120, 46, 99, 111, 109>> (* "jane@x.com" *)},
     cover_letter_content |-> {<<>>, <<72, 105, 44, 10, 10, 66, 121, 101>>}]

\* A text_input / text_area with key=...: the widget writes its value to the session.
EditText ==
    \E key \in DOMAIN TextInputs : \E value \in TextInputs[key] :
        /\ session_state' = [session_state EXCEPT ![key] = value]
        /\ page' = NoOutput
        /\ ForgetRender
        /\ UNCHANGED <<sanVars, extVars, saved_resumes, saved_cover_letters>>

\* render_education_form: the "Add Education Entry" button.
AddEducation ==
    \E institution \in {<<>>, <<73, 73, 84>> (* "IIT" *)}, field \in {<<>>, <<67, 83>> (* "CS" *)} :
        LET degree == <<66, 46, 84, 101, 99, 104>> (* "B.Tech" *)
            entry == [degree |-> degree, field |-> field, institution |-> institution,
                      year |-> 2024, grade |-> <<57, 46, 49, 47, 49, 48, 46, 48>> (* "9.1/10.0" *), grade_type |-> <<67, 71, 80, 65>> (* "CGPA" *)]
        IN  /\ IF ~Falsy(institution) /\ ~Falsy(field)
               THEN /\ Len(session_state.education_list) < MaxFormEntries
                    /\ session_state' = [session_state EXCEPT
                                            !.education_list = Append(@, entry)]
                    /\ page' = NoOutput
               ELSE /\ UNCHANGED session_state
                    /\ page' = Output("add_education", FALSE, NoBytes, None, FALSE,
                                      "Please fill in institution and field of study")
            /\ ForgetRender
            /\ UNCHANGED <<sanVars, extVars, saved_resumes, saved_cover_letters>>

\* render_education_form: the "Delete" button of entry idx.
DeleteEducation ==
    \E idx \in 1..Len(session_state.education_list) :
        /\ session_state' = [session_state EXCEPT !.education_list = Pop(@, idx)]
        /\ page' = NoOutput
        /\ ForgetRender
        /\ UNCHANGED <<sanVars, extVars, saved_resumes, saved_cover_letters>>

\* render_experience_form: the "Add Experience Entry" button.
AddExperience ==
    \E company \in {<<>>, <<65, 99, 109, 101>> (* "Acme" *)}, job_title \in {<<>>, <<68, 101, 118>> (* "Dev" *)}, is_current \in BOOLEAN :
        LET end_date == IF ~is_current THEN <<50, 48, 50, 51>> (* "2023" *) ELSE <<80, 114, 101, 115, 101, 110, 116>> (* "Present" *)
            start_date == <<50, 48, 50, 49>> (* "2021" *)
            responsibilities == <<68, 101, 118, 46, 32, 79, 112, 115>> (* "Dev. Ops" *)
            entry == [company |-> company, job_title |-> job_title, location |-> <<>>,
                      start_date |-> start_date, end_date |-> end_date,
                      is_current |-> is_current, responsibilities |-> responsibilities,
                      bullet_points |-> <<>>]
        IN  /\ IF /\ ~Falsy(company) /\ ~Falsy(job_title)
                  /\ ~Falsy(start_date) /\ ~Falsy(responsibilities)
               THEN /\ Len(session_state.experience_list) < MaxFormEntries
                    /\ session_state' = [session_state EXCEPT
                                            !.experience_list = Append(@, entry)]
                    /\ page' = NoOutput
               ELSE /\ UNCHANGED session_state
                    /\ page' = Output("add_experience", FALSE, NoBytes, None, FALSE,
                                      "Please fill in all required fields")
            /\ ForgetRender
            /\ UNCHANGED <<sanVars, extVars, saved_resumes, saved_cover_letters>>

\* render_experience_form: the "Delete" button of entry idx.
DeleteExperience ==
    \E idx \in 1..Len(session_state.experience_list) :
        /\ session_state' = [session_state EXCEPT !.experience_list = Pop(@, idx)]
        /\ page' = NoOutput
        /\ ForgetRender
        /\ UNCHANGED <<sanVars, extVars, saved_resumes, saved_cover_letters>>

\* render_projects_form: the "Add Project Entry" button.
AddProject ==
    \E project_title \in {<<>>, <<66, 111, 116>> (* "Bot" *)}, description \in {<<>>, <<65, 32, 98, 111, 116, 46>> (* "A bot." *)} :
        LET entry == [title |-> project_title, duration |-> <<>>, technologies |-> <<>>,
                      url |-> <<>>, description |-> description,
                      enhanced_description |-> <<>>]
        IN  /\ IF ~Falsy(project_title) /\ ~Falsy(description)
               THEN /\ Len(session_state.projects_list) < MaxFormEntries
                    /\ session_state' = [session_state EXCEPT
                                            !.projects_list = Append(@, entry)]
                    /\ page' = NoOutput
               ELSE /\ UNCHANGED session_state
                    /\ page' = Output("add_project", FALSE, NoBytes, None, FALSE,
                                      "Please fill in project title and description")
            /\ ForgetRender
            /\ UNCHANGED <<sanVars, extVars, saved_resumes, saved_cover_letters>>

\* render_projects_form: the "Delete" button of entry idx.
DeleteProject ==
    \E idx \in 1..Len(session_state.projects_list) :
        /\ session_state' = [session_state EXCEPT !.projects_list = Pop(@, idx)]
        /\ page' = NoOutput
        /\ ForgetRender
        /\ UNCHANGED <<sanVars, extVars, saved_resumes, saved_cover_letters>>

\* A resume as save_resume stores it.
SavedResume(resume_name, data, stamp) ==
    [name |-> resume_name, target_role |-> Get(data, "target_role", <<>>), data |-> data,
     created_at |-> stamp, updated_at |-> stamp]

\* A resume saved from the forms and exported; its skills hold two CJK characters.
SavedFromForms ==
    SavedResume(<<99, 118>> (* "cv" *),
                FormRecord(<<>>, <<EduFormEntry>>, <<71, 111, 44, 32, 20013, 25991>>, <<>>, <<ExpFormEntry>>,
                           <<ProjFormEntry>>, <<>>),
                <<50, 48, 50, 54, 45, 48, 49, 45, 48, 53, 84, 49, 48, 58, 48, 48, 58, 48, 48>> (* "2026-01-05T10:00:00" *))

\* A resume of a backup file written by hand or by another version: entries
\* without degree, field or title, and a current job that still has an end date.
SavedByHand ==
    SavedResume(<<111, 108, 100>> (* "old" *),
                [name |-> <<65, 110, 110, 32, 76, 101, 101>> (* "Ann Lee" *), email |-> <<97, 110, 110, 64, 120, 46, 105, 111>> (* "ann@x.io" *),
                 education_list |->
                     <<[degree |-> <<>>, field |-> <<>>, institution |-> <<77, 73, 84>> (* "MIT" *),
                        year |-> 2020, grade |-> <<51, 46, 57>> (* "3.9" *), grade_type |-> <<67, 71, 80, 65>> (* "CGPA" *)]>>,
                 experience_list |->
                     <<[company |-> <<65, 99, 109, 101>> (* "Acme" *), job_title |-> <<68, 101, 118>> (* "Dev" *), location |-> <<>>,
                        start_date |-> <<50, 48, 50, 49>> (* "2021" *), end_date |-> <<50, 48, 50, 51>> (* "2023" *), is_current |-> TRUE,
                        responsibilities |-> <<79, 112, 115, 46>> (* "Ops." *), bullet_points |-> <<>>]>>,
                 projects_list |->
                     <<[title |-> <<>>, duration |-> <<>>, technologies |-> <<>>,
                        url |-> <<>>, description |-> <<65, 32, 98, 111, 116, 46>> (* "A bot." *),
                        enhanced_description |-> <<>>]>>],
                <<50, 48, 50, 53, 45, 49, 50, 45, 51, 49, 84, 48, 57, 58, 51, 48, 58, 48, 48>> (* "2025-12-31T09:30:00" *))

\* The files handed to the uploader, as json.loads reads them: ok is FALSE when
\* json.loads raises.
UploadedFiles ==
    { [ok |-> FALSE],
      [ok |-> TRUE, data |-> [export_date |-> <<50, 48, 50, 54, 45, 48, 49, 45, 48, 53>> (* "2026-01-05" *)]],
      [ok |-> TRUE, data |-> [resumes |-> <<SavedByHand>>]],
      [ok |-> TRUE, data |-> [resumes |-> <<SavedFromForms, SavedByHand>>,
                              cover_letters |-> <<>>,
                              export_date |-> <<50, 48, 50, 54, 45, 48, 49, 45, 48, 53>> (* "2026-01-05" *)]] }

\* render_export_import_section with LocalStorage.import_data: a file is uploaded.
ImportData ==
    \E file \in UploadedFiles :
        /\ IF file.ok
           THEN /\ saved_resumes' = IF "resumes" \in DOMAIN file.data
                                    THEN file.data.resumes ELSE saved_resumes
                /\ saved_cover_letters' = IF "cover_letters" \in DOMAIN file.data
                                          THEN file.data.cover_letters
                                          ELSE saved_cover_letters
                /\ page' = NoOutput
           ELSE /\ UNCHANGED <<saved_resumes, saved_cover_letters>>
                /\ page' = Output("import_data", FALSE, NoBytes, None, FALSE,
                                  "Failed to import data")
        /\ ForgetRender
        /\ UNCHANGED <<sanVars, extVars, session_state>>

\* LocalStorage.get_resume: the index of the first resume of that name, or 0.
get_resume(resume_name) ==
    LET hits == {i \in 1..Len(saved_resumes) : saved_resumes[i].name = resume_name}
    IN  IF hits = {} THEN 0 ELSE CHOOSE i \in hits : \A j \in hits : i <= j

\* The option render_load_resume_section shows for a saved resume.
ResumeOption(r) ==
    r.name \o <<32, 45, 32>> (* " - " *) \o (IF Falsy(r.target_role) THEN <<78, 111, 32, 114, 111, 108, 101>> (* "No role" *) ELSE r.target_role)
    \o <<32, 40, 85, 112, 100, 97, 116, 101, 100, 58, 32>> \o SubSeq(r.updated_at, 1, IF Len(r.updated_at) < 10
                                                  THEN Len(r.updated_at) ELSE 10)
    \o <<41>>

\* handle_resume_load_pre_render
handle_resume_load_pre_render(ss) ==
    IF Get(ss, "_load_resume_pending", FALSE) = TRUE
    THEN LET cleared == [ss EXCEPT !["_load_resume_pending"] = FALSE]
         IN  IF "_resume_to_load" \in DOMAIN cleared
             THEN LET resume == cleared["_resume_to_load"]
                      loaded == [k \in DOMAIN cleared \cup DOMAIN resume.data |->
                                    IF k \in DOMAIN resume.data THEN resume.data[k]
                                    ELSE cleared[k]]
                  IN  Del(loaded, "_resume_to_load")
             ELSE cleared
    ELSE ss

\* render_load_resume_section: an option is selected and "Load Resume" clicked;
\* st.rerun() then runs handle_resume_load_pre_render at the top of the page.
LoadResume ==
    \E k \in 1..Len(saved_resumes) :
        LET selected == ResumeOption(saved_resumes[k])
            resume_name == SplitOn(selected, <<32, 45, 32>> (* " - " *))[1]
            found == get_resume(resume_name)
        IN  /\ found # 0
            /\ LET clicked == Put(Put(session_state, "_load_resume_pending", TRUE),
                                  "_resume_to_load", saved_resumes[found])
               IN  session_state' = handle_resume_load_pre_render(clicked)
            /\ page' = NoOutput
            /\ ForgetRender
            /\ UNCHANGED <<sanVars, extVars, saved_resumes, saved_cover_letters>>

\* The resume_data dict render_builder_page collects from the forms.
CollectResumeData(ss) ==
    [name |-> ss.name, email |-> ss.email, phone |-> ss.phone, linkedin |-> ss.linkedin,
     location |-> ss.location, portfolio |-> ss.portfolio,
     target_role |-> ss.target_role, experience_years |-> ss.experience_years,
     summary |-> ss.summary, technical_skills |-> ss.technical_skills,
     soft_skills |-> ss.soft_skills, education_list |-> ss.education_list,
     experience_list |-> ss.experience_list, projects_list |-> ss.projects_list,
     certifications |-> ss.certifications]

\* What a page does with the (pdf_bytes, filename) a download-button function
\* returned: st.download_button only `if pdf_bytes:`; the function itself has
\* shown st.error when it caught an exception.
Show(handler, res, error) ==
    /\ page' = Output(handler, TRUE, res.pdf_bytes, res.filename, res.pdf_bytes # NoBytes,
                      IF res.raised THEN error ELSE "")
    /\ canvas' = res.calls
    /\ pdf_pc' = IF res.raised THEN "raised" ELSE "done"

\* `not resume_data.get('name') or not resume_data.get('email')`
ResumeIdentityMissingNameOnly(rd) == Falsy(Get(rd, "name", None))

ResumeIdentityMissing(rd) ==
    Falsy(Get(rd, "name", None)) \/ Falsy(Get(rd, "email", None))

\* render_builder_page: the "Generate & Download PDF" button.
GeneratePdfClick ==
    LET rd == CollectResumeData(session_state)
    IN  /\ IF ResumeIdentityMissing(rd)
           THEN /\ page' = Output("generate_pdf", FALSE, NoBytes, None, FALSE,
                                  "Please fill in at least Name and Email to generate PDF")
                /\ ForgetRender
           ELSE /\ Show("generate_pdf", create_download_button(rd), "Error generating PDF")
                /\ resume_data' = rd
        /\ UNCHANGED <<sanVars, extVars, session_state, saved_resumes, saved_cover_letters>>

\* `not name or not cover_letter_content`
CoverLetterIdentityMissing(name, cover_letter_content) ==
    Falsy(name) \/ Falsy(cover_letter_content)

\* The days datetime.now() falls on.
Todays == {<<78, 111, 118, 101, 109, 98, 101, 114, 32, 48, 54, 44, 32, 50, 48, 50, 54>> (* "November 06, 2026" *)}

\* The arguments render_cover_letter_page reads from the session.
CoverLetterArgs(ss) ==
    [name |-> Get(ss, "name", <<>>), email |-> Get(ss, "email", <<>>),
     phone |-> Get(ss, "phone", <<>>), location |-> Get(ss, "location", <<>>),
     company |-> Get(ss, "cl_company", <<67, 111, 109, 112, 97, 110, 121>> (* "Company" *)),
     job_title |-> Get(ss, "cl_job_title", <<80, 111, 115, 105, 116, 105, 111, 110>> (* "Position" *)),
     cover_letter_content |-> Get(ss, "cover_letter_content", <<>>)]

\* render_cover_letter_page: the "Download as PDF" button, which
\* render_cover_letter_actions draws only while there is a cover letter.
DownloadCoverLetterClick ==
    \E today \in Todays :
        LET a == CoverLetterArgs(session_state)
        IN  /\ ~Falsy(Get(session_state, "cover_letter_content", <<>>))
            /\ IF CoverLetterIdentityMissing(a.name, a.cover_letter_content)
               THEN /\ page' = Output("download_cover_letter", FALSE, NoBytes, None, FALSE,
                                      "Please ensure your Name is filled and cover letter is generated before downloading PDF.")
                    /\ ForgetRender
               ELSE /\ Show("download_cover_letter",
                            create_cover_letter_download_button(
                                a.name, a.email, a.phone, a.location, a.company,
                                a.job_title, a.cover_letter_content, today),
                            "Error generating cover letter PDF")
                    /\ resume_data' = [name |-> <<>>]
            /\ UNCHANGED <<sanVars, extVars, session_state, saved_resumes, saved_cover_letters>>

Init == IdleSan /\ IdlePdf /\ IdleApp /\ IdleExt

Next ==
    \/ EditText
    \/ AddEducation
    \/ DeleteEducation
    \/ AddExperience
    \/ DeleteExperience
    \/ AddProject
    \/ DeleteProject
    \/ ImportData
    \/ LoadResume
    \/ GeneratePdfClick
    \/ DownloadCoverLetterClick

Spec == Init /\ [][Next]_vars

\* The resume renderer ran in this script run.
ResumeRendered == page.handler = "generate_pdf" /\ page.called

\* C4: an experience entry whose is_current flag is true gets the meta line
\* '{start_date} - Present' (followed by the location when there is one),
\* whatever its end_date holds and wherever the entry comes from.
C4_CurrentShowsPresent ==
    (ResumeRendered /\ pdf_pc = "done") =>
        \A i \in 1..Len(resume_data.experience_list) :
            LET exp == resume_data.experience_list[i]
                present == exp.start_date \o <<32, 45, 32, 80, 114, 101, 115, 101, 110, 116>> (* " - Present" *)
                meta == IF ~Falsy(Get(exp, "location", <<>>))
                        THEN present \o <<32, 124, 32>> (* " | " *) \o exp.location ELSE present
            IN  Get(exp, "is_current", FALSE) = TRUE =>
                    EntryTexts(canvas, "work_experience", i, "meta")
                        = <<sanitize_text(meta)>>

\* The calls a complete render of this run's request makes.
CompleteCalls ==
    IF page.handler = "generate_pdf" THEN ResumeCalls(resume_data)
    ELSE LET a == CoverLetterArgs(session_state)
         IN  CHOOSE ops \in {CoverLetterCalls(a.name, a.email, a.phone, a.location,
                                              a.company, a.job_title,
                                              a.cover_letter_content, today) :
                             today \in Todays} : TRUE

\* C8: a render request is all-or-nothing: the result is either the bytes of the
\* complete PDF with a filename, or (None, None); it is (None, None) whenever a
\* step raised; and a download is offered only when bytes were returned.
C8_AllOrNothing ==
    (page.handler \in {"generate_pdf", "download_cover_letter"} /\ page.called) =>
        /\ \/ page.pdf_bytes = NoBytes /\ page.filename = None
           \/ /\ page.pdf_bytes = Bytes(CompleteCalls)
              /\ page.filename # None
              /\ page.filename # <<>>
        /\ pdf_pc = "raised" => (page.pdf_bytes = NoBytes /\ page.filename = None)
        /\ page.offered <=> page.pdf_bytes # NoBytes

C8_Witness ==
    /\ ResumeRendered
    /\ pdf_pc = "raised"
    /\ canvas # <<>>
    /\ page.pdf_bytes = NoBytes
    /\ page.filename = None
    /\ ~page.offered

C10_MandatoryFields ==
    ResumeRendered =>
        /\ \A i \in 1..Len(resume_data.education_list) :
               /\ ~Falsy(Get(resume_data.education_list[i], "degree", <<>>))
               /\ ~Falsy(Get(resume_data.education_list[i], "field", <<>>))
        /\ \A i \in 1..Len(resume_data.experience_list) :
               /\ ~Falsy(Get(resume_data.experience_list[i], "job_title", <<>>))
               /\ ~Falsy(Get(resume_data.experience_list[i], "company", <<>>))
        /\ \A i \in 1..Len(resume_data.projects_list) :
               ~Falsy(Get(resume_data.projects_list[i], "title", <<>>))

(***************************************************************************)
(* The AI clients: generate_content and generate_with_retry                *)
(***************************************************************************)
MaxRetries == 2     \* largest max_retries handed to generate_with_retry

StartsWith(s, prefix) ==
    Len(s) >= Len(prefix) /\ SubSeq(s, 1, Len(prefix)) = prefix

\* Python's `sub in s` on strings.
Contains(s, sub) ==
    \E i \in 1..(Len(s) - Len(sub) + 1) : SubSeq(s, i, i + Len(sub) - 1) = sub

LowerChar(c) == IF c >= 65 /\ c <= 90 THEN c + 32 ELSE c

Lower(s) == [i \in 1..Len(s) |-> LowerChar(s[i])]

\* What the provider can do at one call.  `kind` is what really happened;
\* the client only sees the text, the exception or the HTTP response.
GeminiResponses ==
    { [kind |-> "Ok", exception |-> FALSE, text |-> <<32, 83, 101, 97, 115, 111, 110, 101, 100, 32, 101, 110, 103, 105, 110, 101, 101, 114, 46, 32, 10>>],
      [kind |-> "RateLimited", exception |-> TRUE,
       text |-> <<52, 50, 57, 32, 82, 101, 115, 111, 117, 114, 99, 101, 32, 104, 97, 115, 32, 98, 101, 101, 110, 32, 101, 120, 104, 97, 117, 115, 116, 101, 100, 32, 40, 101, 46, 103, 46, 32, 99, 104, 101, 99, 107, 32, 113, 117, 111, 116, 97, 41, 46>>],
      [kind |-> "InvalidCredentials", exception |-> TRUE,
       text |-> <<52, 48, 48, 32, 65, 80, 73, 32, 107, 101, 121, 32, 110, 111, 116, 32, 118, 97, 108, 105, 100, 46, 32, 80, 108, 101, 97, 115, 101, 32, 112, 97, 115, 115, 32, 97, 32, 118, 97, 108, 105, 100, 32, 65, 80, 73, 32, 107, 101, 121, 46>> (* "400 API key not valid. Please pass a valid API key." *)],
      [kind |-> "Timeout", exception |-> TRUE, text |-> <<53, 48, 52, 32, 68, 101, 97, 100, 108, 105, 110, 101, 32, 69, 120, 99, 101, 101, 100, 101, 100>> (* "504 Deadline Exceeded" *)],
      [kind |-> "ConnectionError", exception |-> TRUE,
       text |-> <<53, 48, 51, 32, 102, 97, 105, 108, 101, 100, 32, 116, 111, 32, 99, 111, 110, 110, 101, 99, 116, 32, 116, 111, 32, 97, 108, 108, 32, 97, 100, 100, 114, 101, 115, 115, 101, 115>> (* "503 failed to connect to all addresses" *)],
      [kind |-> "Unknown", exception |-> TRUE,
       text |-> <<53, 48, 48, 32, 65, 110, 32, 105, 110, 116, 101, 114, 110, 97, 108, 32, 101, 114, 114, 111, 114, 32, 104, 97, 115, 32, 111, 99, 99, 117, 114, 114, 101, 100, 46>> (* "500 An internal error has occurred." *)] }

OpenRouterResponses ==
    { [kind |-> "Ok", exception |-> "", status_code |-> 200, choices |-> TRUE,
       text |-> <<32, 83, 101, 97, 115, 111, 110, 101, 100, 32, 101, 110, 103, 105, 110, 101, 101, 114, 46, 32, 10>>],
      [kind |-> "Unknown", exception |-> "", status_code |-> 200, choices |-> FALSE,
       text |-> <<>>],
      [kind |-> "RateLimited", exception |-> "", status_code |-> 429, choices |-> FALSE,
       text |-> <<>>],
      [kind |-> "InvalidCredentials", exception |-> "", status_code |-> 401,
       choices |-> FALSE, text |-> <<>>],
      [kind |-> "Unknown", exception |-> "", status_code |-> 500, choices |-> FALSE,
       text |-> <<73, 110, 116, 101, 114, 110, 97, 108, 32, 83, 101, 114, 118, 101, 114, 32, 69, 114, 114, 111, 114>> (* "Internal Server Error" *)],
      [kind |-> "Timeout", exception |-> "Timeout", status_code |-> 0,
       choices |-> FALSE, text |-> <<>>],
      [kind |-> "ConnectionError", exception |-> "ConnectionError", status_code |-> 0,
       choices |-> FALSE, text |-> <<>>],
      [kind |-> "Unknown", exception |-> "Exception", status_code |-> 0,
       choices |-> FALSE, text |-> <<69, 120, 112, 101, 99, 116, 105, 110, 103, 32, 118, 97, 108, 117, 101, 58, 32, 108, 105, 110, 101, 32, 49, 32, 99, 111, 108, 117, 109, 110, 32, 49, 32, 40, 99, 104, 97, 114, 32, 48, 41>>] }

Responses(client) ==
    IF client = "Gemini" THEN GeminiResponses ELSE OpenRouterResponses

\* GeminiClient.generate_content, given what the provider did.
GeminiClient_generate_content(r) ==
    IF ~r.exception THEN Strip(r.text)
    ELSE LET error_msg == Lower(r.text)
         IN  IF Contains(error_msg, <<113, 117, 111, 116, 97>> (* "quota" *)) \/ Contains(error_msg, <<114, 97, 116, 101>> (* "rate" *))
             THEN <<82, 97, 116, 101, 32, 108, 105, 109, 105, 116, 32, 101, 120, 99, 101, 101, 100, 101, 100, 46, 32, 80, 108, 101, 97, 115, 101, 32, 119, 97, 105, 116, 32, 97, 32, 109, 111, 109, 101, 110, 116, 32, 97, 110, 100, 32, 116, 114, 121, 32, 97, 103, 97, 105, 110, 46>> (* "Rate limit exceeded. Please wait a moment and try again." *)
             ELSE IF Contains(error_msg, <<97, 112, 105, 32, 107, 101, 121>> (* "api key" *))
             THEN <<73, 110, 118, 97, 108, 105, 100, 32, 65, 80, 73, 32, 107, 101, 121, 46, 32, 80, 108, 101, 97, 115, 101, 32, 99, 104, 101, 99, 107, 32, 121, 111, 117, 114, 32, 99, 111, 110, 102, 105, 103, 117, 114, 97, 116, 105, 111, 110, 46>> (* "Invalid API key. Please check your configuration." *)
             ELSE <<65, 110, 32, 101, 114, 114, 111, 114, 32, 111, 99, 99, 117, 114, 114, 101, 100, 58, 32>> (* "An error occurred: " *) \o r.text

\* OpenRouterClient.generate_content, given what the provider did.
OpenRouterClient_generate_content(r) ==
    IF r.exception = "Timeout" THEN <<82, 101, 113, 117, 101, 115, 116, 32, 116, 105, 109, 101, 100, 32, 111, 117, 116, 46, 32, 80, 108, 101, 97, 115, 101, 32, 116, 114, 121, 32, 97, 103, 97, 105, 110, 46>> (* "Request timed out. Please try again." *)
    ELSE IF r.exception = "ConnectionError"
    THEN <<67, 111, 110, 110, 101, 99, 116, 105, 111, 110, 32, 101, 114, 114, 111, 114, 46, 32, 80, 108, 101, 97, 115, 101, 32, 99, 104, 101, 99, 107, 32, 121, 111, 117, 114, 32, 105, 110, 116, 101, 114, 110, 101, 116, 32, 99, 111, 110, 110, 101, 99, 116, 105, 111, 110, 46>> (* "Connection error. Please check your internet connection." *)
    ELSE IF r.exception = "Exception" THEN <<65, 110, 32, 101, 114, 114, 111, 114, 32, 111, 99, 99, 117, 114, 114, 101, 100, 58, 32>> (* "An error occurred: " *) \o r.text
    ELSE IF r.status_code = 200
    THEN IF r.choices THEN Strip(r.text) ELSE <<69, 114, 114, 111, 114, 58, 32, 78, 111, 32, 99, 111, 110, 116, 101, 110, 116, 32, 103, 101, 110, 101, 114, 97, 116, 101, 100>> (* "Error: No content generated" *)
    ELSE IF r.status_code = 429
    THEN <<82, 97, 116, 101, 32, 108, 105, 109, 105, 116, 32, 101, 120, 99, 101, 101, 100, 101, 100, 46, 32, 80, 108, 101, 97, 115, 101, 32, 119, 97, 105, 116, 32, 97, 32, 109, 111, 109, 101, 110, 116, 32, 97, 110, 100, 32, 116, 114, 121, 32, 97, 103, 97, 105, 110, 46>> (* "Rate limit exceeded. Please wait a moment and try again." *)
    ELSE IF r.status_code = 401
    THEN <<73, 110, 118, 97, 108, 105, 100, 32, 65, 80, 73, 32, 107, 101, 121, 46, 32, 80, 108, 101, 97, 115, 101, 32, 99, 104, 101, 99, 107, 32, 121, 111, 117, 114, 32, 99, 111, 110, 102, 105, 103, 117, 114, 97, 116, 105, 111, 110, 46>> (* "Invalid API key. Please check your configuration." *)
    ELSE <<65, 110, 32, 101, 114, 114, 111, 114, 32, 111, 99, 99, 117, 114, 114, 101, 100, 58, 32>> (* "An error occurred: " *) \o r.text

generate_content(client, r) ==
    IF client = "Gemini" THEN GeminiClient_generate_content(r)
    ELSE OpenRouterClient_generate_content(r)

\* The test of GeminiClient.generate_with_retry on `result`, negated.
GeminiIsError(res) ==
    \/ StartsWith(res, <<82, 97, 116, 101, 32, 108, 105, 109, 105, 116>> (* "Rate limit" *))
    \/ StartsWith(res, <<73, 110, 118, 97, 108, 105, 100>> (* "Invalid" *))
    \/ StartsWith(res, <<65, 110, 32, 101, 114, 114, 111, 114>> (* "An error" *))

\* The test of OpenRouterClient.generate_with_retry on `result`, negated.
OpenRouterIsError(res) ==
    \/ StartsWith(res, <<82, 97, 116, 101, 32, 108, 105, 109, 105, 116>> (* "Rate limit" *))
    \/ StartsWith(res, <<73, 110, 118, 97, 108, 105, 100>> (* "Invalid" *))
    \/ StartsWith(res, <<65, 110, 32, 101, 114, 114, 111, 114>> (* "An error" *))
    \/ StartsWith(res, <<69, 114, 114, 111, 114, 58>> (* "Error:" *))
    \/ StartsWith(res, <<82, 101, 113, 117, 101, 115, 116, 32, 116, 105, 109, 101, 100>> (* "Request timed" *))
    \/ StartsWith(res, <<67, 111, 110, 110, 101, 99, 116, 105, 111, 110, 32, 101, 114, 114, 111, 114>> (* "Connection error" *))

IsError(client, res) ==
    IF client = "Gemini" THEN GeminiIsError(res) ELSE OpenRouterIsError(res)

\* A variant that sleeps after every failed attempt, the last one included.
BackoffAfterLast(n, retries) == <<2^n>>

\* `if attempt < max_retries: time.sleep(2 ** attempt)`: the sleeps it makes.
Backoff(n, retries) == IF n < retries THEN <<2^n>> ELSE <<>>

\* AIClient.generate_with_retry hands the call to the client it was built with.
InitRetry ==
    /\ provider \in {"Gemini", "OpenRouter"}
    /\ max_retries \in 0..MaxRetries
    /\ attempt = 0
    /\ responses = <<>>
    /\ sleeps = <<>>
    /\ result = None
    /\ retry_pc = "loop"
    /\ IdleSan
    /\ IdlePdf
    /\ IdleApp
    /\ IdleFn
    /\ IdleCl
    /\ IdlePv
    /\ IdleSt
    /\ IdleGen
    /\ IdleLs

\* One pass of the body of `for attempt in range(max_retries + 1)`.
TryOnce ==
    /\ retry_pc = "loop"
    /\ attempt <= max_retries
    /\ \E r \in Responses(provider) :
        /\ responses' = Append(responses, r)
        /\ result' = generate_content(provider, r)
        /\ IF ~IsError(provider, generate_content(provider, r))
           THEN /\ retry_pc' = "returned"
                /\ UNCHANGED <<attempt, sleeps>>
           ELSE /\ sleeps' = sleeps \o Backoff(attempt, max_retries)
                /\ attempt' = attempt + 1
                /\ UNCHANGED retry_pc
    /\ UNCHANGED <<provider, max_retries, exceptAi>>

\* The range is used up: `return result` after the loop.
ReturnLast ==
    /\ retry_pc = "loop"
    /\ attempt > max_retries
    /\ retry_pc' = "returned"
    /\ UNCHANGED <<provider, max_retries, attempt, responses, sleeps, result, exceptAi>>

NextRetry == TryOnce \/ ReturnLast

SpecRetry == InitRetry /\ [][NextRetry]_vars

\* The provider call and time.sleep are blocking calls that come back (the
\* HTTP request has timeout=30), so the loop keeps stepping.
SpecRetryFair == SpecRetry /\ WF_vars(NextRetry)

Transient(r) == r.kind \in {"RateLimited", "Timeout", "ConnectionError"}

\* C11: a further provider call is made only after a transient failure (rate
\* limit, timeout, connection error); a non-transient failure (invalid
\* credentials, unknown error) is returned without another call.
C11_RetriesOnlyTransient ==
    \A i \in 1..(Len(responses) - 1) : Transient(responses[i])

Returned == retry_pc = "returned"

ExpectedSleeps(n) == [k \in 1..n |-> 2^(k - 1)]

C12_Bounded ==
    /\ Len(responses) <= max_retries + 1
    /\ \A i \in 1..(Len(responses) - 1) :
           IsError(provider, generate_content(provider, responses[i]))
    /\ Returned =>
        /\ Len(responses) >= 1
        /\ result = generate_content(provider, responses[Len(responses)])
        /\ sleeps = ExpectedSleeps(Len(responses) - 1)
        /\ IsError(provider, result) => Len(responses) = max_retries + 1

\* C12: generate_with_retry returns after at most max_retries + 1 provider
\* calls; a result that is not an error is returned with no further call; the
\* sleeps are 1, 2, ... seconds, one between two attempts and none after the
\* last; when every attempt fails the last attempt's error string is returned.
C12_TerminatesWithinBound == []C12_Bounded /\ <>Returned

\* All three attempts fail, two sleeps, and the last error comes back.
C12_Witness ==
    /\ Returned
    /\ max_retries = 2
    /\ Len(responses) = 3
    /\ sleeps = <<1, 2>>
    /\ IsError(provider, result)

(***************************************************************************)
(* Entry order                                                             *)
(***************************************************************************)
ListKey(sec) ==
    IF sec = "education" THEN "education_list"
    ELSE IF sec = "work_experience" THEN "experience_list" ELSE "projects_list"

EntriesOf(sec) == Get(resume_data, ListKey(sec), <<>>)

\* The subheading the renderer composes for an entry of a section.
Subheading(sec, e) ==
    IF sec = "education" THEN e.degree \o <<32, 105, 110, 32>> (* " in " *) \o e.field
    ELSE IF sec = "work_experience" THEN e.job_title \o <<32, 124, 32>> (* " | " *) \o e.company
    ELSE e.title

IsSubtitleOf(sec, op) == op.sec = sec /\ op.kind = "subtitle"

IsSubtitleOfEducation(op) == IsSubtitleOf("education", op)
IsSubtitleOfExperience(op) == IsSubtitleOf("work_experience", op)
IsSubtitleOfProjects(op) == IsSubtitleOf("projects", op)

Subtitles(sec) ==
    IF sec = "education" THEN SelectSeq(canvas, IsSubtitleOfEducation)
    ELSE IF sec = "work_experience" THEN SelectSeq(canvas, IsSubtitleOfExperience)
    ELSE SelectSeq(canvas, IsSubtitleOfProjects)

EntrySections == {"education", "work_experience", "projects"}

\* C13: in each of education_list, experience_list and projects_list the
\* subheadings are painted in list order, one per entry, and every block an
\* entry paints comes after its own subheading and before the next entry's.
C13_EntryOrderPreserved ==
    Rendered =>
        \A sec \in EntrySections :
            /\ Len(Subtitles(sec)) <= Len(EntriesOf(sec))
            /\ pdf_pc = "done" => Len(Subtitles(sec)) = Len(EntriesOf(sec))
            /\ \A i \in 1..Len(Subtitles(sec)) :
                   /\ Subtitles(sec)[i].txt
                          = sanitize_text(Subheading(sec, EntriesOf(sec)[i]))
                   /\ Subtitles(sec)[i].entry = i
            /\ \A j \in SecOps(sec) : \A k \in SecOps(sec) :
                   (j < k /\ canvas[j].entry >= 1 /\ canvas[k].entry >= 1)
                       => canvas[j].entry <= canvas[k].entry
            /\ \A k \in SecOps(sec) :
                   (canvas[k].entry >= 1 /\ canvas[k].kind # "subtitle")
                       => \E j \in SecOps(sec) :
                              /\ j < k
                              /\ canvas[j].kind = "subtitle"
                              /\ canvas[j].entry = canvas[k].entry

\* Two different experience entries, the first with bullets: its bullets are
\* painted between the two subheadings.
C13_Witness ==
    /\ pdf_pc = "done"
    /\ Get(resume_data, "experience_list", <<>>) = <<ExpEnhanced, ExpFormEntry>>
    /\ Len(Subtitles("work_experience")) = 2
    /\ Subtitles("work_experience")[1].txt = <<76, 101, 97, 100, 32, 124, 32, 66, 101, 116, 97>> (* "Lead | Beta" *)
    /\ Subtitles("work_experience")[2].txt = <<68, 101, 118, 32, 124, 32, 65, 99, 109, 101>> (* "Dev | Acme" *)
    /\ \E j \in SecOps("work_experience") : \E k \in SecOps("work_experience") :
           /\ j < k
           /\ canvas[j].kind = "bullet" /\ canvas[j].entry = 1
           /\ canvas[k].kind = "subtitle" /\ canvas[k].entry = 2

(***************************************************************************)
(* generate_filename on its own: every name of the alphabet up to          *)
(* MaxNameLen, and the name of the scenario                                *)
(***************************************************************************)
MaxNameLen == 5     \* longest name handed to generate_filename

\* 'J', e acute, space, tab, apostrophe, underscore
NameAlphabet == {74, 233, 32, 9, 39, 95}

NameInputs == StringsUpTo(NameAlphabet, MaxNameLen) \cup {<<74, 97, 110, 101, 32, 79, 39, 66, 114, 105, 101, 110, 33>>}

InitName ==
    /\ fn_name \in NameInputs
    /\ fn_result = <<>>
    /\ fn_pc = "input"
    /\ IdleSan
    /\ IdlePdf
    /\ IdleApp
    /\ IdleAi
    /\ IdleCl
    /\ IdlePv
    /\ IdleSt
    /\ IdleGen
    /\ IdleLs

\* One call of generate_filename(fn_name).
GenerateFilename ==
    /\ fn_pc = "input"
    /\ fn_result' = generate_filename(fn_name)
    /\ fn_pc' = "done"
    /\ UNCHANGED <<fn_name, exceptFn>>

NextName == GenerateFilename

SpecName == InitName /\ [][NextName]_vars

Suffix == <<95, 82, 101, 115, 117, 109, 101, 46, 112, 100, 102>> (* "_Resume.pdf" *)

\* The result without its '_Resume.pdf'.
Stem == SubSeq(fn_result, 1, Len(fn_result) - Len(Suffix))

\* The positions of the alphanumeric characters of s, in increasing order.
AlnumPos(s) ==
    LET P == {i \in 1..Len(s) : IsAlnum(s[i])}
        Rank(i) == Cardinality({j \in P : j <= i})
    IN  [k \in 1..Cardinality(P) |-> CHOOSE i \in P : Rank(i) = k]

\* C14: generate_filename returns the name without the characters that are
\* neither alphanumeric nor whitespace, its words joined by single
\* underscores, then '_Resume.pdf': the stem holds only alphanumerics and
\* '_', keeps the name's alphanumerics in order, has an underscore exactly
\* where whitespace separated two of them, and "Jane O'Brien!" gives
\* 'Jane_OBrien_Resume.pdf'.
C14_FilenameShape ==
    fn_pc = "done" =>
        /\ Len(fn_result) >= Len(Suffix)
        /\ SubSeq(fn_result, Len(fn_result) - Len(Suffix) + 1, Len(fn_result)) = Suffix
        /\ \A i \in 1..Len(Stem) : IsAlnum(Stem[i]) \/ Stem[i] = UNDERSCORE
        /\ \A i \in 1..Len(fn_result) : ~IsSpace(fn_result[i])
        /\ SelectSeq(Stem, IsAlnum) = SelectSeq(fn_name, IsAlnum)
        /\ Stem # <<>> => (Stem[1] # UNDERSCORE /\ Stem[Len(Stem)] # UNDERSCORE)
        /\ \A k \in 1..(Len(AlnumPos(Stem)) - 1) :
               LET a == AlnumPos(Stem)[k]
                   b == AlnumPos(Stem)[k + 1]
                   p == AlnumPos(fn_name)[k]
                   q == AlnumPos(fn_name)[k + 1]
               IN  /\ b - a <= 2
                   /\ (b - a = 2) <=> (\E i \in (p + 1)..(q - 1) : IsSpace(fn_name[i]))
        /\ (fn_name = <<74, 97, 110, 101, 32, 79, 39, 66, 114, 105, 101, 110, 33>> => fn_result = <<74, 97, 110, 101, 95, 79, 66, 114, 105, 101, 110, 95, 82, 101, 115, 117, 109, 101, 46, 112, 100, 102>> (* "Jane_OBrien_Resume.pdf" *))

C14_Witness ==
    /\ fn_pc = "done"
    /\ fn_name = <<74, 97, 110, 101, 32, 79, 39, 66, 114, 105, 101, 110, 33>>
    /\ fn_result = <<74, 97, 110, 101, 95, 79, 66, 114, 105, 101, 110, 95, 82, 101, 115, 117, 109, 101, 46, 112, 100, 102>> (* "Jane_OBrien_Resume.pdf" *)

(***************************************************************************)
(* generate_cover_letter_pdf on its own: every body of the alphabet up to  *)
(* MaxBodyLen, rendered twice with the same arguments                      *)
(***************************************************************************)
MaxBodyLen == 6     \* longest cover_letter_content handed to the renderer

\* 'a', newline, space
BodyAlphabet == {97, 10, 32}

\* A body of one paragraph with more lines than the first page has room for.
LongBodyLines == 40

LongBody == Join([i \in 1..LongBodyLines |-> <<97>>], <<10>>)

BodyInputs == StringsUpTo(BodyAlphabet, MaxBodyLen) \cup {<<80, 49, 10, 10, 80, 50>>, LongBody}

LetterArgs ==
    { [name |-> <<74, 97, 110, 101, 32, 68, 111, 101>> (* "Jane Doe" *), email |-> <<106, 97, 110, 101, 64, 120, 46, 99, 111, 109>> (* "jane@x.com" *), phone |-> <<43, 57, 49, 45, 57, 56>> (* "+91-98" *),
       location |-> l, company |-> <<65, 99, 109, 101>> (* "Acme" *), job_title |-> <<68, 101, 118>> (* "Dev" *),
       cover_letter_content |-> b] : l \in {<<>>, <<80, 117, 110, 101>> (* "Pune" *)}, b \in BodyInputs }

\* datetime.now().strftime("%B %d, %Y") on two consecutive days.
Today == <<78, 111, 118, 101, 109, 98, 101, 114, 32, 48, 54, 44, 32, 50, 48, 50, 54>> (* "November 06, 2026" *)
Tomorrow == <<78, 111, 118, 101, 109, 98, 101, 114, 32, 48, 55, 44, 32, 50, 48, 50, 54>> (* "November 07, 2026" *)

InitLetter ==
    /\ cl_args \in LetterArgs
    /\ cl_clock = Today
    /\ cl_first = <<>>
    /\ cl_second = <<>>
    /\ cl_pc = "ready"
    /\ IdleSan
    /\ IdlePdf
    /\ IdleApp
    /\ IdleAi
    /\ IdleFn
    /\ IdlePv
    /\ IdleSt
    /\ IdleGen
    /\ IdleLs

\* generate_cover_letter_pdf(**cl_args) at the moment the clock shows cl_clock.
LetterCalls ==
    generate_cover_letter_pdf(cl_args.name, cl_args.email, cl_args.phone,
                              cl_args.location, cl_args.company, cl_args.job_title,
                              cl_args.cover_letter_content, cl_clock).calls

RenderLetter ==
    /\ cl_pc = "ready"
    /\ cl_first' = LetterCalls
    /\ cl_pc' = "once"
    /\ UNCHANGED <<cl_args, cl_clock, cl_second, exceptCl>>

\* The day ends between two calls.
Midnight ==
    /\ cl_pc = "once"
    /\ cl_clock = Today
    /\ cl_clock' = Tomorrow
    /\ UNCHANGED <<cl_args, cl_first, cl_second, cl_pc, exceptCl>>

RenderLetterAgain ==
    /\ cl_pc = "once"
    /\ cl_second' = LetterCalls
    /\ cl_pc' = "twice"
    /\ UNCHANGED <<cl_args, cl_clock, cl_first, exceptCl>>

NextLetter == RenderLetter \/ Midnight \/ RenderLetterAgain

SpecLetter == InitLetter /\ [][NextLetter]_vars

\* The maximal runs of non-empty lines, each joined by newlines again.
RECURSIVE LineRuns(_)
LineRuns(lines) ==
    IF lines = <<>> THEN <<>>
    ELSE IF Head(lines) = <<>> THEN LineRuns(Tail(lines))
    ELSE LET FirstEmpty[i \in 1..(Len(lines) + 1)] ==
                 IF i > Len(lines) \/ lines[i] = <<>> THEN i ELSE FirstEmpty[i + 1]
             n == FirstEmpty[1]
         IN  <<Join(SubSeq(lines, 1, n - 1), <<10>>)>>
             \o LineRuns(SubSeq(lines, n, Len(lines)))

StripEach(parts) == [k \in 1..Len(parts) |-> Strip(parts[k])]

\* The paragraphs of a body: its runs of lines between blank lines, trimmed,
\* without those that hold only whitespace.
ExpectedParagraphs(body) ==
    NonEmpty(StripEach(LineRuns(Split(sanitize_text(body), 10))))

IsParagraph(op) == op.kind = "paragraph"

ParagraphTexts(ops) ==
    LET ps == SelectSeq(ops, IsParagraph) IN [k \in 1..Len(ps) |-> ps[k].txt]

LetterRendered == cl_pc \in {"once", "twice"}

\* C15: the cover-letter renderer paints one paragraph block per run of body
\* lines between blank lines, in order, each followed by the 2.5 mm
\* inter-paragraph spacing; 'P1\n\nP2' paints two paragraphs, a single newline
\* stays inside its paragraph, and a blank-only segment paints nothing.
C15_ParagraphPerRun ==
    LetterRendered =>
        /\ ParagraphTexts(cl_first) = ExpectedParagraphs(cl_args.cover_letter_content)
        /\ \A k \in 1..Len(cl_first) :
               cl_first[k].kind = "paragraph" =>
                   /\ k < Len(cl_first)
                   /\ cl_first[k + 1].prim = "ln"
                   /\ cl_first[k + 1].h = 25
                   /\ Strip(cl_first[k].txt) # <<>>
        /\ cl_args.cover_letter_content = <<80, 49, 10, 10, 80, 50>>
               => ParagraphTexts(cl_first) = <<<<80, 49>> (* "P1" *), <<80, 50>> (* "P2" *)>>

\* A body with a single newline inside its first paragraph and a blank line
\* before the second.
C15_Witness ==
    /\ LetterRendered
    /\ cl_args.cover_letter_content = <<97, 10, 97, 10, 10, 97>>
    /\ ParagraphTexts(cl_first) = <<<<97, 10, 97>>, <<97>>>>

\* C18: two calls of generate_cover_letter_pdf with the same arguments paint
\* the same sequence of blocks, whenever they run.
C18_SameArgumentsSameBlocks ==
    cl_pc = "twice" => cl_second = cl_first

(***************************************************************************)
(* Preview and PDF side by side                                            *)
(***************************************************************************)
IsHeading(op) == op.kind = "heading"

IsSectionTitle(el) == el.cls = "preview-section-title"

\* The section headings a finished PDF render painted, in order.
PdfHeadings ==
    LET hs == SelectSeq(canvas, IsHeading) IN [k \in 1..Len(hs) |-> hs[k].txt]

\* The section headings of the preview, in order.
PreviewHeadings ==
    LET hs == SelectSeq(preview_html, IsSectionTitle) IN [k \in 1..Len(hs) |-> hs[k].txt]

BodySources == {"bullet_points", "responsibilities", "description"}

PdfBodySources(sec, i) == EntrySources(sec, i) \cap BodySources

PreviewBodySources(sec, i) ==
    {preview_html[k].src : k \in {n \in 1..Len(preview_html) :
            preview_html[n].sec = sec /\ preview_html[n].entry = i}} \cap BodySources

BothRendered == pdf_pc = "done" /\ preview_pc = "shown"

\* C16: for a record both targets render, the preview and the PDF emit the
\* same section headings, and for each experience or project entry both take
\* the body from the same source (bullet_points, or responsibilities /
\* description).
C16_PreviewMatchesPdf ==
    BothRendered =>
        /\ PdfHeadings = PreviewHeadings
        /\ \A sec \in {"work_experience", "projects"} :
               \A i \in 1..Len(EntriesOf(sec)) :
                   PdfBodySources(sec, i) = PreviewBodySources(sec, i)

\* A record with a whitespace-only summary, an enhanced experience entry and
\* a project without bullets.
C16_Witness ==
    /\ BothRendered
    /\ Get(resume_data, "summary", <<>>) = <<32>>
    /\ <<80, 82, 79, 70, 69, 83, 83, 73, 79, 78, 65, 76, 32, 83, 85, 77, 77, 65, 82, 89>> (* "PROFESSIONAL SUMMARY" *) \in {PreviewHeadings[k] : k \in 1..Len(PreviewHeadings)}
    /\ Get(resume_data, "experience_list", <<>>) = <<ExpEnhanced>>
    /\ Get(resume_data, "projects_list", <<>>) = <<ProjFormEntry>>
    /\ PreviewBodySources("work_experience", 1) = {"bullet_points"}
    /\ PreviewBodySources("projects", 1) = {"description"}

(***************************************************************************)
(* Pages: where the FPDF engine puts each call of a render.  Lengths are   *)
(* in tenths of a millimetre.  ResumePDF sets auto page break with a 15 mm *)
(* bottom margin and a 10 mm top margin on an A4 portrait page; a cell or  *)
(* a line of a multi_cell that would cross the bottom margin first adds a  *)
(* page, which runs footer() on the page left and header() on the new one. *)
(***************************************************************************)
PAGE_HEIGHT == 2970
TOP_MARGIN == 100
BOTTOM_MARGIN == 150
\* generate_cover_letter_pdf: add_page() under FPDF's own 10 mm margins, then
\* set_margins(25.4, 25.4, 25.4) and set_auto_page_break(margin=25.4).
DEFAULT_MARGIN == 100
LETTER_MARGIN == 254

PageBreakTrigger == PAGE_HEIGHT - BOTTOM_MARGIN

\* A variant of the header hook that paints the name again on later pages.
header_repeating(page_no) ==
    [set_y |-> IF page_no > 1 THEN TOP_MARGIN + 100 ELSE -1,
     paints |-> IF page_no > 1 THEN <<"name">> ELSE <<>>]

\* ResumePDF.header: only on pages after the first, set_y(10); paints nothing.
header(page_no) ==
    [set_y |-> IF page_no > 1 THEN TOP_MARGIN ELSE -1, paints |-> <<>>]

\* ResumePDF.footer: pass.
footer(page_no) == [paints |-> <<>>]

\* CoverLetterPDF.header and CoverLetterPDF.footer: pass.
CoverLetterPDF_header(page_no) == [set_y |-> -1, paints |-> <<>>]

CoverLetterPDF_footer(page_no) == [paints |-> <<>>]

\* The cursor before anything is painted: add_page() of generate_resume_pdf.
\* top is the top margin of a page added later, trigger the page break
\* trigger; lines gets the page, cursor and height of every line of text.
FirstPage ==
    [cls |-> "ResumePDF", y |-> TOP_MARGIN, page |-> 1, pages |-> <<>>, tops |-> <<>>,
     hook_paints |-> header(1).paints, top |-> TOP_MARGIN,
     trigger |-> PageBreakTrigger, lines |-> <<>>]

\* The same for generate_cover_letter_pdf: the first page was added before
\* the margins were set.
LetterFirstPage ==
    [cls |-> "CoverLetterPDF", y |-> DEFAULT_MARGIN, page |-> 1, pages |-> <<>>,
     tops |-> <<>>, hook_paints |-> CoverLetterPDF_header(1).paints,
     top |-> LETTER_MARGIN, trigger |-> PAGE_HEIGHT - LETTER_MARGIN, lines |-> <<>>]

\* An automatic add_page(): footer() of the page left, then header() of the new one.
add_page(st) ==
    LET h == IF st.cls = "ResumePDF" THEN header(st.page + 1)
             ELSE CoverLetterPDF_header(st.page + 1)
        f == IF st.cls = "ResumePDF" THEN footer(st.page)
             ELSE CoverLetterPDF_footer(st.page)
        y == IF h.set_y = -1 THEN st.top ELSE h.set_y
    IN  [st EXCEPT !.page = st.page + 1, !.y = y, !.tops = Append(st.tops, y),
                   !.hook_paints = st.hook_paints \o f.paints \o h.paints]

\* A variant of PaintLine that never adds a page.
PaintLineOnSamePage(st, h) ==
    [st EXCEPT !.y = st.y + h,
               !.lines = Append(st.lines, [page |-> st.page, y |-> st.y, h |-> h])]

\* One line of height h: the page break test of cell, then the line.
PaintLine(st, h) ==
    LET s1 == IF st.y + h > st.trigger THEN add_page(st) ELSE st
    IN  [s1 EXCEPT !.y = s1.y + h,
                   !.lines = Append(s1.lines, [page |-> s1.page, y |-> s1.y, h |-> h])]

RECURSIVE PaintLines(_, _, _)
PaintLines(st, h, n) ==
    IF n = 0 THEN st
    ELSE LET s1 == PaintLine(st, h)
         IN  IF s1.page >= 1 THEN PaintLines(s1, h, n - 1) ELSE s1

\* multi_cell breaks its text at newlines; the texts here are shorter than a line.
NumLines(op) ==
    IF op.prim = "multi_cell" THEN Len(Split(op.txt, 10)) ELSE 1

\* One canvas call: pages gets the page the call ends on.
PaintOp(st, op) ==
    LET s1 == IF op.prim = "ln" THEN [st EXCEPT !.y = st.y + op.h]
              ELSE IF op.prim = "line" THEN st
              ELSE IF op.kind = "dash"
              THEN [PaintLine(st, op.h) EXCEPT !.y = st.y]
              ELSE PaintLines(st, op.h, NumLines(op))
    IN  [s1 EXCEPT !.pages = Append(s1.pages, s1.page)]

RECURSIVE LayoutFrom(_, _, _)
LayoutFrom(ops, k, st) ==
    IF k > Len(ops) THEN st
    ELSE LET s1 == PaintOp(st, ops[k])
         IN  IF s1.page >= 1 THEN LayoutFrom(ops, k + 1, s1) ELSE s1

Layout(ops) == LayoutFrom(ops, 1, FirstPage)

LetterLayout(ops) == LayoutFrom(ops, 1, LetterFirstPage)

HeaderOps == SecOps("header")

KindCount(kind) == Cardinality({i \in 1..Len(canvas) : canvas[i].kind = kind})

\* What C17 says of a layout of the canvas.
HeaderOnceOnPageOne(L) ==
    /\ HeaderOps = 1..Cardinality(HeaderOps)
    /\ KindCount("name") = 1
    /\ KindCount("contact") <= 1
    /\ KindCount("links") <= 1
    /\ pdf_pc = "done" => KindCount("contact") = 1
    /\ \A i \in HeaderOps : L.pages[i] = 1
    /\ L.hook_paints = <<>>
    /\ \A k \in 1..Len(L.tops) : L.tops[k] = TOP_MARGIN

\* C17: the header block (name, contact line, optional links line) is painted
\* once, before every section block and on page 1; the header and footer
\* hooks paint nothing on a continuation page, the header hook only puts the
\* cursor at the top margin.
C17_HeaderOnceHooksSilent ==
    Rendered => HeaderOnceOnPageOne(Layout(canvas))

\* The long record runs over to a second page.
C17_Witness ==
    /\ pdf_pc = "done"
    /\ resume_data = LongResume
    /\ Layout(canvas).page >= 2
    /\ Layout(canvas).hook_paints = <<>>
    /\ KindCount("name") = 1

(***************************************************************************)
(* LocalStorage: export_all_data and import_data.  A JSON text is the      *)
(* tree of its values: {"obj"}, {"arr"}, {"str"}, {"num"}, {"bool"}.       *)
(***************************************************************************)
MaxSaved == 2       \* longest list of saved resumes or cover letters

\* The Python type of the value stored under a key of the saved data.
KeyType(k) ==
    IF k \in {"year", "experience_years"} THEN "int"
    ELSE IF k = "is_current" THEN "bool"
    ELSE IF k = "data" THEN "dict"
    ELSE IF k \in {"resumes", "cover_letters", "education_list", "experience_list",
                   "projects_list"} THEN "list of dict"
    ELSE IF k = "bullet_points" THEN "list of str"
    ELSE "str"

\* json.dumps of a value of the given Python type.
RECURSIVE JsonDumps(_, _)
JsonDumps(v, type) ==
    IF type = "int" THEN [num |-> v]
    ELSE IF type = "bool" THEN [bool |-> v]
    ELSE IF type = "str" THEN [str |-> v]
    ELSE IF type = "list of str" THEN [arr |-> [i \in 1..Len(v) |-> [str |-> v[i]]]]
    ELSE IF type = "list of dict"
    THEN [arr |-> [i \in 1..Len(v) |-> JsonDumps(v[i], "dict")]]
    ELSE [obj |-> [k \in DOMAIN v |-> JsonDumps(v[k], KeyType(k))]]

\* json.loads of a JSON text.
RECURSIVE JsonLoads(_)
JsonLoads(j) ==
    IF "num" \in DOMAIN j THEN j.num
    ELSE IF "bool" \in DOMAIN j THEN j.bool
    ELSE IF "str" \in DOMAIN j THEN j.str
    ELSE IF "arr" \in DOMAIN j THEN [i \in 1..Len(j.arr) |-> JsonLoads(j.arr[i])]
    ELSE [k \in DOMAIN j.obj |-> JsonLoads(j.obj[k])]

\* A variant of export_all_data that leaves the cover letters out.
export_resumes_only(now) ==
    JsonDumps([resumes |-> saved_resumes, export_date |-> now], "dict")

\* LocalStorage.export_all_data at the moment `now`.
export_all_data(now) ==
    JsonDumps([resumes |-> saved_resumes, cover_letters |-> saved_cover_letters,
               export_date |-> now], "dict")

\* An entry as LocalStorage.save_cover_letter writes it.
SavedCoverLetter(cover_letter_name, resume_name, company, job_title, content, stamp) ==
    [name |-> cover_letter_name, resume_name |-> resume_name, company |-> company,
     job_title |-> job_title, content |-> content, created_at |-> stamp,
     updated_at |-> stamp]

LetterForCv ==
    SavedCoverLetter(<<99, 108, 45, 97, 99, 109, 101>> (* "cl-acme" *), <<99, 118>> (* "cv" *), <<65, 99, 109, 101>> (* "Acme" *), <<68, 101, 118>> (* "Dev" *), <<72, 105, 44, 10, 10, 66, 121, 101>>,
                     <<50, 48, 50, 54, 45, 48, 49, 45, 48, 54, 84, 49, 49, 58, 48, 48, 58, 48, 48>> (* "2026-01-06T11:00:00" *))

LetterForOld ==
    SavedCoverLetter(<<99, 108, 45, 98, 101, 116, 97>> (* "cl-beta" *), <<111, 108, 100>> (* "old" *), <<66, 101, 116, 97>> (* "Beta" *), <<76, 101, 97, 100>> (* "Lead" *), <<68, 101, 97, 114, 32, 8212, 32, 97, 108, 108>>,
                     <<50, 48, 50, 54, 45, 48, 49, 45, 48, 55, 84, 49, 50, 58, 48, 48, 58, 48, 48>> (* "2026-01-07T12:00:00" *))

\* The record of the scenario, saved under a name of its own.
SavedJane == SavedResume(<<106, 97, 110, 101>> (* "jane" *), JaneDoe, <<50, 48, 50, 54, 45, 48, 50, 45, 48, 49, 84, 48, 56, 58, 48, 48, 58, 48, 48>> (* "2026-02-01T08:00:00" *))

\* The lists of length up to n without a repeated entry.
ListsOf(S, n) == {l \in SeqsUpTo(S, n) : \A i, j \in 1..Len(l) : l[i] = l[j] => i = j}

InitStore ==
    /\ saved_resumes \in ListsOf({SavedFromForms, SavedByHand, SavedJane}, MaxSaved)
    /\ saved_cover_letters \in ListsOf({LetterForCv, LetterForOld}, MaxSaved)
    /\ session_state = initialize_session_state
    /\ page = NoOutput
    /\ st_blob = <<>>
    /\ st_at_export = <<>>
    /\ st_import_ok = FALSE
    /\ st_pc = "store"
    /\ IdleSan
    /\ IdlePdf
    /\ IdleAi
    /\ IdleFn
    /\ IdleCl
    /\ IdlePv
    /\ IdleGen
    /\ IdleLs

\* render_export_import_section: the Export button.
ExportAllData ==
    /\ st_pc = "store"
    /\ st_blob' = export_all_data(<<50, 48, 50, 54, 45, 49, 49, 45, 48, 54, 84, 49, 48, 58, 48, 48, 58, 48, 48>> (* "2026-11-06T10:00:00" *))
    /\ st_at_export' = <<saved_resumes, saved_cover_letters>>
    /\ st_pc' = "exported"
    /\ UNCHANGED <<st_import_ok, saved_resumes, saved_cover_letters, exceptSt>>

\* LocalStorage.clear_all_data
ClearAllData ==
    /\ st_pc = "exported"
    /\ saved_resumes' = <<>>
    /\ saved_cover_letters' = <<>>
    /\ UNCHANGED <<stVars, exceptSt>>

\* LocalStorage.delete_resume(resume_name)
DeleteResume ==
    /\ st_pc = "exported"
    /\ \E i \in 1..Len(saved_resumes) :
        LET resume_name == saved_resumes[i].name
            Others(r) == r.name # resume_name
            NotOf(cl) == Get(cl, "resume_name", None) # resume_name
        IN  /\ saved_resumes' = SelectSeq(saved_resumes, Others)
            /\ saved_cover_letters' = SelectSeq(saved_cover_letters, NotOf)
    /\ UNCHANGED <<stVars, exceptSt>>

\* LocalStorage.import_data(st_blob): the exported file is uploaded again.
ImportExported ==
    /\ st_pc = "exported"
    /\ LET data == JsonLoads(st_blob)
       IN  /\ saved_resumes' = IF "resumes" \in DOMAIN data
                               THEN data.resumes ELSE saved_resumes
           /\ saved_cover_letters' = IF "cover_letters" \in DOMAIN data
                                     THEN data.cover_letters ELSE saved_cover_letters
    /\ st_import_ok' = TRUE
    /\ st_pc' = "imported"
    /\ UNCHANGED <<st_blob, st_at_export, exceptSt>>

(***************************************************************************)
(* LocalStorage.import_data on an uploaded file                            *)
(***************************************************************************)
\* The files handed to the uploader: a text that is no JSON, JSON values
\* that are no object, and objects with none, one or both of the keys.
UploadedTexts ==
    { [bad |-> TRUE], [num |-> 5], [null |-> TRUE],
      [str |-> <<114, 101, 115, 117, 109, 101, 115>> (* "resumes" *)], [str |-> <<109, 121, 32, 99, 111, 118, 101, 114, 95, 108, 101, 116, 116, 101, 114, 115>> (* "my cover_letters" *)],
      [arr |-> <<[str |-> <<114, 101, 115, 117, 109, 101, 115>> (* "resumes" *)]>>], [arr |-> <<[str |-> <<99, 111, 118, 101, 114, 95, 108, 101, 116, 116, 101, 114, 115>> (* "cover_letters" *)]>>],
      [arr |-> <<>>], [obj |-> [k \in {} |-> <<>>]],
      JsonDumps([resumes |-> <<SavedJane>>], "dict"),
      JsonDumps([cover_letters |-> <<LetterForCv>>], "dict"),
      JsonDumps([resumes |-> <<SavedJane>>, cover_letters |-> <<LetterForCv>>], "dict") }

KeyText(key) == IF key = "resumes" THEN <<114, 101, 115, 117, 109, 101, 115>> (* "resumes" *) ELSE <<99, 111, 118, 101, 114, 95, 108, 101, 116, 116, 101, 114, 115>> (* "cover_letters" *)

\* `key in data` on what json.loads gave: "yes", "no", or "raise" (TypeError
\* on a number, a boolean or None).
KeyIn(j, key) ==
    IF "obj" \in DOMAIN j THEN (IF key \in DOMAIN j.obj THEN "yes" ELSE "no")
    ELSE IF "arr" \in DOMAIN j
    THEN (IF \E i \in 1..Len(j.arr) : j.arr[i] = [str |-> KeyText(key)]
          THEN "yes" ELSE "no")
    ELSE IF "str" \in DOMAIN j
    THEN (IF Contains(j.str, KeyText(key)) THEN "yes" ELSE "no")
    ELSE "raise"

\* `data[key]` raises on a list or a string.
CanIndex(j) == "obj" \in DOMAIN j

\* A variant of import_data that empties the store before it reads the file.
import_data_clearing_first(j, resumes, letters) ==
    IF "bad" \in DOMAIN j \/ KeyIn(j, "resumes") = "raise" \/ ~CanIndex(j)
    THEN [returned |-> FALSE, saved_resumes |-> <<>>, saved_cover_letters |-> <<>>]
    ELSE [returned |-> TRUE,
          saved_resumes |-> IF KeyIn(j, "resumes") = "yes"
                            THEN JsonLoads(j.obj.resumes) ELSE <<>>,
          saved_cover_letters |-> IF KeyIn(j, "cover_letters") = "yes"
                                  THEN JsonLoads(j.obj.cover_letters) ELSE <<>>]

\* LocalStorage.import_data: what it returns and the two lists it leaves.
\* The lists are assigned one after the other, each as soon as it is read.
import_data(j, resumes, letters) ==
    IF "bad" \in DOMAIN j
    THEN [returned |-> FALSE, saved_resumes |-> resumes, saved_cover_letters |-> letters]
    ELSE IF KeyIn(j, "resumes") = "raise" \/ (KeyIn(j, "resumes") = "yes" /\ ~CanIndex(j))
    THEN [returned |-> FALSE, saved_resumes |-> resumes, saved_cover_letters |-> letters]
    ELSE LET r1 == IF KeyIn(j, "resumes") = "yes" THEN JsonLoads(j.obj.resumes)
                   ELSE resumes
         IN  IF KeyIn(j, "cover_letters") = "raise"
                \/ (KeyIn(j, "cover_letters") = "yes" /\ ~CanIndex(j))
             THEN [returned |-> FALSE, saved_resumes |-> r1,
                   saved_cover_letters |-> letters]
             ELSE [returned |-> TRUE, saved_resumes |-> r1,
                   saved_cover_letters |-> IF KeyIn(j, "cover_letters") = "yes"
                                           THEN JsonLoads(j.obj.cover_letters)
                                           ELSE letters]

\* render_export_import_section: a file is uploaded.
ImportUploaded ==
    \E j \in UploadedTexts :
        LET r == import_data(j, saved_resumes, saved_cover_letters)
        IN  /\ st_pc = "store"
            /\ ls_call = NoCall
            /\ saved_resumes' = r.saved_resumes
            /\ saved_cover_letters' = r.saved_cover_letters
            /\ ls_call' = [op |-> "import_data", args |-> <<j>>, returned |-> r.returned,
                           before |-> <<saved_resumes, saved_cover_letters>>]
            /\ page' = IF r.returned THEN NoOutput
                       ELSE Output("import_data", FALSE, NoBytes, None, FALSE,
                                   "Failed to import data")
            /\ UNCHANGED <<stVars, ls_clock, session_state, exceptLs>>

NextStore ==
    \/ ExportAllData
    \/ ClearAllData
    \/ DeleteResume
    \/ ImportExported
    \/ ImportUploaded

SpecStore == InitStore /\ [][NextStore]_vars

EducationMeta(i) ==
    LET m == EntryTexts(canvas, "education", i, "meta")
    IN  IF m = <<>> THEN <<>> ELSE m[1]

\* The entry stands for a degree that is still pursued: its status says so,
\* or it is the entry the form appended for such a degree.
StillPursued(edu) ==
    Get(edu, "status", "Completed") = "Pursuing" \/ edu = EduFormPursued

\* C20: the meta line of an education entry says 'Graduated' when the degree
\* is completed and 'Expected' when it is still pursued, also for an entry
\* added through the education form.
C20_StatusLabel ==
    pdf_pc = "done" =>
        \A i \in 1..Len(EntriesOf("education")) :
            LET edu == EntriesOf("education")[i]
            IN  IF StillPursued(edu)
                THEN Contains(EducationMeta(i), <<69, 120, 112, 101, 99, 116, 101, 100, 58, 32>> (* "Expected: " *) \o DecStr(edu.year))
                ELSE Contains(EducationMeta(i), <<71, 114, 97, 100, 117, 97, 116, 101, 100, 58, 32>> (* "Graduated: " *) \o DecStr(edu.year))

(***************************************************************************)
(* Responsibilities split into sentences                                   *)
(***************************************************************************)
\* The sentences of a responsibilities text, read off the positions of its
\* full stops: from the position c of one full stop (0 before the text) to the
\* next, the characters from the first to the last that is not white space,
\* with the full stop put back; a piece with no such character gives nothing.
RECURSIVE SentencesFrom(_, _)
SentencesFrom(s, c) ==
    IF c > Len(s) THEN <<>>
    ELSE LET stops == {p \in (c + 1)..Len(s) : s[p] = 46} \cup {Len(s) + 1}
             d == CHOOSE p \in stops : \A q \in stops : p <= q
             ink == {p \in (c + 1)..(d - 1) : ~IsSpace(s[p])}
             a == CHOOSE p \in ink : \A q \in ink : p <= q
             b == CHOOSE p \in ink : \A q \in ink : q <= p
         IN  (IF ink = {} THEN <<>> ELSE <<SubSeq(s, a, b) \o <<46>>>>)
             \o SentencesFrom(s, d)

Sentences(s) == SentencesFrom(s, 0)

\* The positions on the canvas of the bullets, and of the dashes, of
\* experience entry i.
EntryMarks(i, kind) ==
    {k \in 1..Len(canvas) :
        /\ canvas[k].sec = "work_experience"
        /\ canvas[k].entry = i
        /\ canvas[k].kind = kind}

\* The n-th position of a set of positions.
Nth(S, n) == CHOOSE x \in S : Cardinality({y \in S : y <= x}) = n

SplitsResponsibilities(exp) ==
    /\ Get(exp, "bullet_points", <<>>) = <<>>
    /\ Get(exp, "responsibilities", <<>>) # <<>>

\* C21: an experience entry with empty bullet_points and non-empty
\* responsibilities paints one bullet per non-blank piece between full stops,
\* in order; each bullet is the trimmed piece followed by '.', handed to the
\* canvas through sanitize_text; blank pieces paint nothing.
C21_BulletPerSentence ==
    pdf_pc = "done" =>
        \A i \in 1..Len(EntriesOf("work_experience")) :
            LET exp == EntriesOf("work_experience")[i]
                want == Sentences(exp.responsibilities)
                got == EntryMarks(i, "bullet")
            IN  SplitsResponsibilities(exp) =>
                    /\ Cardinality(got) = Len(want)
                    /\ Cardinality(EntryMarks(i, "dash")) = Len(want)
                    /\ \A n \in 1..Len(want) :
                           /\ canvas[Nth(got, n)].txt = sanitize_text(want[n])
                           /\ canvas[Nth(got, n)].src = "responsibilities"
                           /\ canvas[Nth(got, n) - 1].kind = "dash"

\* The rendered record whose first entry has four pieces, two of them blank,
\* and whose second entry has only a blank piece.
C21_Witness ==
    /\ pdf_pc = "done"
    /\ resume_data = WordyResume
    /\ Cardinality(EntryMarks(1, "bullet")) = 2
    /\ canvas[Nth(EntryMarks(1, "bullet"), 1)].txt = <<66, 117, 105, 108, 116, 32, 65, 80, 73, 115, 46>> (* "Built APIs." *)
    /\ canvas[Nth(EntryMarks(1, "bullet"), 2)].txt = <<82, 97, 110, 32, 111, 112, 115, 46>> (* "Ran ops." *)
    /\ EntryMarks(2, "bullet") = {}
    /\ EntryMarks(2, "subtitle") # {}

(***************************************************************************)
(* Page breaks of both renderers                                           *)
(***************************************************************************)
InitPages == InitPdf \/ InitLetter

NextPages == NextPdf \/ NextLetter

SpecPages == InitPages /\ [][NextPages]_vars

\* Where the last line of text of the calls would end on a page without an
\* end: y is the cursor, bottom the lowest edge of a line of text so far.
RECURSIVE EndlessFrom(_, _, _, _)
EndlessFrom(ops, k, y, bottom) ==
    IF k > Len(ops) THEN bottom
    ELSE LET op == ops[k]
             down == IF op.prim = "ln" THEN op.h
                     ELSE IF op.prim = "line" \/ op.kind = "dash" THEN 0
                     ELSE op.h * NumLines(op)
             b == IF op.prim = "ln" \/ op.prim = "line" THEN bottom
                  ELSE IF op.kind = "dash" THEN y + op.h
                  ELSE y + down
         IN  IF b >= bottom THEN EndlessFrom(ops, k + 1, y + down, b) ELSE bottom

\* What C22 says of the layout L of the calls ops that started at cursor y0.
BreaksBeforeTheLimit(L, ops, y0) ==
    /\ \A n \in 1..Len(L.lines) :
           /\ L.lines[n].y >= 0
           /\ L.lines[n].y + L.lines[n].h <= L.trigger
           /\ L.lines[n].y + L.lines[n].h <= PAGE_HEIGHT
    /\ L.lines # <<>> => L.lines[1].page = 1
    /\ \A n \in 2..Len(L.lines) :
           \/ L.lines[n].page = L.lines[n - 1].page
           \/ /\ L.lines[n].page = L.lines[n - 1].page + 1
              /\ L.lines[n].y = L.top
    /\ EndlessFrom(ops, 1, y0, y0) > L.trigger => L.page > 1

\* C22: in a resume render and in a cover-letter render every line of text is
\* painted with cursor + line height within page height - bottom margin
\* (15 mm, 25.4 mm); a line that would cross the limit is painted at the top
\* of the next page; calls whose text ends below the limit give more than one
\* page.
C22_NoLineAcrossPageBoundary ==
    /\ Rendered => BreaksBeforeTheLimit(Layout(canvas), canvas, TOP_MARGIN)
    /\ LetterRendered
           => BreaksBeforeTheLimit(LetterLayout(cl_first), cl_first, DEFAULT_MARGIN)

\* The lines of the call at position k of a layout's calls.
PagesOfLines(L) == {L.lines[n].page : n \in 1..Len(L.lines)}

\* The letter whose one paragraph has more lines than fit: the paragraph
\* starts on page 1 and its last lines, and the closing, are on page 2.
C22_Witness ==
    /\ LetterRendered
    /\ cl_args.cover_letter_content = LongBody
    /\ LetterLayout(cl_first).page = 2
    /\ PagesOfLines(LetterLayout(cl_first)) = {1, 2}
    /\ \E k \in 1..Len(cl_first) :
           /\ cl_first[k].kind = "paragraph"
           /\ NumLines(cl_first[k]) = LongBodyLines
           /\ LetterLayout(cl_first).pages[k] = 2
           /\ LetterLayout(cl_first).pages[k - 1] = 1
    /\ \E n \in 1..Len(LetterLayout(cl_first).lines) :
           /\ LetterLayout(cl_first).lines[n].page = 2
           /\ LetterLayout(cl_first).lines[n].y = LETTER_MARGIN

(***************************************************************************)
(* AIClient(): which provider a new client holds                           *)
(***************************************************************************)
\* os.getenv of a key: None when it is not in the environment, else its value.
KeyValues == {None, <<>>, <<115, 107, 45, 49>> (* "sk-1" *)}

\* What the environment holds and what it lets each client do: for Gemini
\* which of GenerativeModel('gemini-2.5-flash') and GenerativeModel('gemini-pro')
\* come back ("flash": the first; "pro": only the second; "none": both raise),
\* or that the import of the module raises.
Envs ==
    [GEMINI_API_KEY : KeyValues, OPENROUTER_API_KEY : KeyValues,
     gemini : {"flash", "pro", "none", "import_error"},
     openrouter : {"ok", "import_error"}]

Built(cls, model) == [cls |-> cls, model |-> model, raised |-> ""]

Raised(exception) == [cls |-> "", model |-> "", raised |-> exception]

\* `from utils.gemini_client import GeminiClient` and GeminiClient().
GeminiClient_init(e) ==
    IF e.gemini = "import_error" THEN Raised("ImportError")
    ELSE IF Falsy(e.GEMINI_API_KEY) THEN Raised("ValueError")
    ELSE IF e.gemini = "flash" THEN Built("GeminiClient", "gemini-2.5-flash")
    ELSE IF e.gemini = "pro" THEN Built("GeminiClient", "gemini-pro")
    ELSE Raised("Exception")

\* `from utils.openrouter_client import OpenRouterClient` and OpenRouterClient().
OpenRouterClient_init(e) ==
    IF e.openrouter = "import_error" THEN Raised("ImportError")
    ELSE IF Falsy(e.OPENROUTER_API_KEY) THEN Raised("ValueError")
    ELSE Built("OpenRouterClient", "google/gemma-3-27b-it:free")

\* A variant of AIClient.__init__ that tries OpenRouter before Gemini.
AIClient_init_openrouter_first(e) ==
    IF ~Falsy(e.OPENROUTER_API_KEY) /\ OpenRouterClient_init(e).raised = ""
    THEN [client |-> OpenRouterClient_init(e), provider |-> "OpenRouter", raised |-> ""]
    ELSE IF ~Falsy(e.GEMINI_API_KEY) /\ GeminiClient_init(e).raised = ""
    THEN [client |-> GeminiClient_init(e), provider |-> "Gemini", raised |-> ""]
    ELSE [client |-> NoClient.client, provider |-> NoClient.provider,
          raised |-> "ValueError"]

\* AIClient.__init__: self.client, self.provider and the exception it raises.
AIClient_init(e) ==
    IF ~Falsy(e.GEMINI_API_KEY) /\ GeminiClient_init(e).raised = ""
    THEN [client |-> GeminiClient_init(e), provider |-> "Gemini", raised |-> ""]
    ELSE IF ~Falsy(e.OPENROUTER_API_KEY) /\ OpenRouterClient_init(e).raised = ""
    THEN [client |-> OpenRouterClient_init(e), provider |-> "OpenRouter", raised |-> ""]
    ELSE [client |-> NoClient.client, provider |-> NoClient.provider,
          raised |-> "ValueError"]

InitClient ==
    /\ env \in Envs
    /\ ai_client = NoClient
    /\ ai_error = ""
    /\ is_available = FALSE
    /\ gen_log = <<>>
    /\ gen_pc = "start"
    /\ IdleSan
    /\ IdlePdf
    /\ IdleApp
    /\ IdleAi
    /\ IdleFn
    /\ IdleCl
    /\ IdlePv
    /\ IdleSt
    /\ IdleLs

\* AIGenerator.__init__: AIClient() inside try/except.
AIGenerator_init ==
    /\ gen_pc = "start"
    /\ LET c == AIClient_init(env)
       IN  /\ ai_client' = [client |-> c.client, provider |-> c.provider]
           /\ ai_error' = c.raised
           /\ is_available' = (c.raised = "")
    /\ gen_pc' = "AIGenerator"
    /\ UNCHANGED <<env, gen_log, session_state, page, exceptGen>>

\* CoverLetterGenerator.__init__: self.client = AIClient().
CoverLetterGenerator_init ==
    /\ gen_pc = "start"
    /\ LET c == AIClient_init(env)
       IN  /\ ai_client' = [client |-> c.client, provider |-> c.provider]
           /\ ai_error' = c.raised
    /\ gen_pc' = "CoverLetterGenerator"
    /\ UNCHANGED <<env, is_available, gen_log, session_state, page, exceptGen>>

NextClient == AIGenerator_init \/ CoverLetterGenerator_init

SpecClient == InitClient /\ [][NextClient]_vars

Constructed == gen_pc \in {"AIGenerator", "CoverLetterGenerator"}

KeySet(k) == k # None

GeminiUsable == KeySet(env.GEMINI_API_KEY) /\ GeminiClient_init(env).raised = ""

OpenRouterUsable ==
    KeySet(env.OPENROUTER_API_KEY) /\ OpenRouterClient_init(env).raised = ""

\* C23: AIClient() holds the Gemini client whenever GEMINI_API_KEY is set and
\* the Gemini client initialises; the OpenRouter client only when Gemini was
\* not chosen and OPENROUTER_API_KEY is set and its client initialises;
\* otherwise it raises ValueError.  After a construction that did not raise,
\* client is not None and provider names the client held.
C23_ProviderFallbackChain ==
    Constructed =>
        /\ GeminiUsable => ai_client.provider = "Gemini"
        /\ ai_client.provider = "OpenRouter" => ~GeminiUsable /\ OpenRouterUsable
        /\ (~GeminiUsable /\ OpenRouterUsable) => ai_client.provider = "OpenRouter"
        /\ (~GeminiUsable /\ ~OpenRouterUsable) <=> ai_error = "ValueError"
        /\ ai_error \in {"", "ValueError"}
        /\ ai_error = "" =>
               /\ ai_client # NoClient
               /\ ai_client.client.cls # "None"
               /\ ai_client.client.raised = ""
               /\ \/ ai_client.provider = "Gemini" /\ ai_client.client.cls = "GeminiClient"
                  \/ /\ ai_client.provider = "OpenRouter"
                     /\ ai_client.client.cls = "OpenRouterClient"
        /\ gen_pc = "AIGenerator" => (is_available <=> ai_error = "")

\* Both keys are set and neither Gemini model can be built: the client held
\* is the OpenRouter one.
C23_Witness ==
    /\ Constructed
    /\ env.GEMINI_API_KEY = <<115, 107, 45, 49>> (* "sk-1" *)
    /\ env.gemini = "none"
    /\ env.OPENROUTER_API_KEY = <<115, 107, 45, 49>> (* "sk-1" *)
    /\ ai_client.provider = "OpenRouter"
    /\ ai_client.client.cls = "OpenRouterClient"
    /\ ai_error = ""

(***************************************************************************)
(* AIGenerator and CoverLetterGenerator (components/ai_generator.py,       *)
(* components/cover_letter_generator.py).  The prompt of a call does not   *)
(* decide what the provider does, so a generation function takes `reply`,  *)
(* the string the client's generate_content returns, and gives its result  *)
(* with the calls it made.                                                 *)
(***************************************************************************)
\* str.lstrip(chars)
RECURSIVE LStripChars(_, _)
LStripChars(s, chars) ==
    IF s # <<>> /\ Head(s) \in chars THEN LStripChars(Tail(s), chars) ELSE s

\* The characters of '•-*→▸▪ '.
BulletMarkers == {8226, 45, 42, 8594, 9656, 9642, 32}

\* helpers.clean_bullet_points
clean_bullet_points(t) ==
    IF Falsy(t) THEN <<>>
    ELSE LET lines == Split(Strip(t), 10)
         IN  NonEmpty([k \in 1..Len(lines) |-> LStripChars(Strip(lines[k]), BulletMarkers)])

\* str.replace(sub, rep) for a substring.
RECURSIVE ReplaceStr(_, _, _)
ReplaceStr(s, sub, rep) ==
    IF Len(s) < Len(sub) THEN s
    ELSE IF SubSeq(s, 1, Len(sub)) = sub
    THEN rep \o ReplaceStr(SubSeq(s, Len(sub) + 1, Len(s)), sub, rep)
    ELSE <<Head(s)>> \o ReplaceStr(Tail(s), sub, rep)

\* re.sub(r'\n\n+', '\n\n', s): a run of two or more newlines becomes two.
RECURSIVE CollapseNewlines(_)
CollapseNewlines(s) ==
    IF Len(s) < 3 THEN s
    ELSE IF s[1] = 10 /\ s[2] = 10 /\ s[3] = 10 THEN CollapseNewlines(Tail(s))
    ELSE <<Head(s)>> \o CollapseNewlines(Tail(s))

\* CoverLetterGenerator._sanitize_cover_letter
sanitize_cover_letter(t) ==
    IF Falsy(t) THEN <<>>
    ELSE Strip(CollapseNewlines(
             ReplaceStr(ReplaceStr(StripMarkdown(t), <<STAR, STAR>>, <<>>),
                        <<UNDERSCORE, UNDERSCORE>>, <<>>)))

\* AIGenerator.generate_professional_summary
generate_professional_summary(available, target_role, reply) ==
    IF ~available
    THEN [result |-> <<65, 73, 32, 115, 101, 114, 118, 105, 99, 101, 32, 105, 115, 32, 110, 111, 116, 32, 97, 118, 97, 105, 108, 97, 98, 108, 101, 46, 32, 80, 108, 101, 97, 115, 101, 32, 101, 110, 116, 101, 114, 32, 115, 117, 109, 109, 97, 114, 121, 32, 109, 97, 110, 117, 97, 108, 108, 121, 46>> (* "AI service is not available. Please enter summary manually." *),
          calls |-> <<>>]
    ELSE IF Falsy(target_role)
    THEN [result |-> <<80, 108, 101, 97, 115, 101, 32, 101, 110, 116, 101, 114, 32, 97, 32, 116, 97, 114, 103, 101, 116, 32, 106, 111, 98, 32, 114, 111, 108, 101, 32, 102, 105, 114, 115, 116, 46>> (* "Please enter a target job role first." *), calls |-> <<>>]
    ELSE [result |-> reply, calls |-> <<"summary">>]

\* AIGenerator.generate_experience_bullets
generate_experience_bullets(available, responsibilities, reply) ==
    IF ~available
    THEN [result |-> <<<<65, 73, 32, 115, 101, 114, 118, 105, 99, 101, 32, 105, 115, 32, 110, 111, 116, 32, 97, 118, 97, 105, 108, 97, 98, 108, 101, 46, 32, 80, 108, 101, 97, 115, 101, 32, 101, 110, 116, 101, 114, 32, 98, 117, 108, 108, 101, 116, 32, 112, 111, 105, 110, 116, 115, 32, 109, 97, 110, 117, 97, 108, 108, 121, 46>> (* "AI service is not available. Please enter bullet points manually." *)>>,
          calls |-> <<>>]
    ELSE IF Falsy(responsibilities)
    THEN [result |-> <<<<80, 108, 101, 97, 115, 101, 32, 101, 110, 116, 101, 114, 32, 98, 97, 115, 105, 99, 32, 114, 101, 115, 112, 111, 110, 115, 105, 98, 105, 108, 105, 116, 105, 101, 115, 32, 102, 105, 114, 115, 116, 46>> (* "Please enter basic responsibilities first." *)>>, calls |-> <<>>]
    ELSE [result |-> IF clean_bullet_points(reply) # <<>> THEN clean_bullet_points(reply)
                     ELSE <<reply>>,
          calls |-> <<"experience">>]

\* AIGenerator.enhance_project_description
enhance_project_description(available, description, reply) ==
    IF ~available
    THEN [result |-> <<65, 73, 32, 115, 101, 114, 118, 105, 99, 101, 32, 105, 115, 32, 110, 111, 116, 32, 97, 118, 97, 105, 108, 97, 98, 108, 101, 46, 32, 85, 115, 105, 110, 103, 32, 111, 114, 105, 103, 105, 110, 97, 108, 32, 100, 101, 115, 99, 114, 105, 112, 116, 105, 111, 110, 46>> (* "AI service is not available. Using original description." *),
          calls |-> <<>>]
    ELSE IF Falsy(description)
    THEN [result |-> <<80, 108, 101, 97, 115, 101, 32, 101, 110, 116, 101, 114, 32, 97, 32, 98, 97, 115, 105, 99, 32, 112, 114, 111, 106, 101, 99, 116, 32, 100, 101, 115, 99, 114, 105, 112, 116, 105, 111, 110, 32, 102, 105, 114, 115, 116, 46>> (* "Please enter a basic project description first." *), calls |-> <<>>]
    ELSE [result |-> reply, calls |-> <<"projects">>]

\* AIGenerator.suggest_skills
suggest_skills(available, target_role, reply) ==
    IF ~available \/ Falsy(target_role) THEN [result |-> <<>>, calls |-> <<>>]
    ELSE [result |->
              IF /\ ~Falsy(reply)
                 /\ ~StartsWith(reply, <<80, 108, 101, 97, 115, 101>> (* "Please" *))
                 /\ ~StartsWith(reply, <<82, 97, 116, 101>> (* "Rate" *))
                 /\ ~StartsWith(reply, <<73, 110, 118, 97, 108, 105, 100>> (* "Invalid" *))
              THEN LET skills == Split(reply, 44)
                   IN  NonEmpty([k \in 1..Len(skills) |-> Strip(skills[k])])
              ELSE <<>>,
          calls |-> <<"skills">>]

\* An empty dict.
EmptyDict == [k \in {} |-> <<>>]

\* A variant of the copy below that writes into the caller's entry.
WriteInPlace(entry, key, value) ==
    [returned |-> Put(entry, key, value), given |-> Put(entry, key, value)]

\* exp_copy = exp.copy(); exp_copy[key] = value: the entry handed on, and the
\* entry of the caller's list after it.
CopyWith(entry, key, value) == [returned |-> Put(entry, key, value), given |-> entry]

Untouched(entry) == [returned |-> entry, given |-> entry]

\* `if bullets and not bullets[0].startswith("Please")` on the bullets made.
EnhancedExperience(exp, bullets) ==
    [entry |-> IF bullets.result # <<>> /\ ~StartsWith(bullets.result[1], <<80, 108, 101, 97, 115, 101>> (* "Please" *))
               THEN CopyWith(exp, "bullet_points", bullets.result)
               ELSE Untouched(exp),
     calls |-> bullets.calls]

\* One pass of `for exp in resume_data['experience_list']`.
OptimizeExperience(available, exp, reply) ==
    IF ~Falsy(Get(exp, "responsibilities", <<>>))
    THEN EnhancedExperience(exp, generate_experience_bullets(available,
                                                             exp.responsibilities, reply))
    ELSE [entry |-> Untouched(exp), calls |-> <<>>]

\* `if enhanced_desc and not enhanced_desc.startswith("Please")`
EnhancedProject(proj, enhanced_desc) ==
    [entry |-> IF ~Falsy(enhanced_desc.result)
                   /\ ~StartsWith(enhanced_desc.result, <<80, 108, 101, 97, 115, 101>> (* "Please" *))
               THEN CopyWith(proj, "enhanced_description", enhanced_desc.result)
               ELSE Untouched(proj),
     calls |-> enhanced_desc.calls]

\* One pass of `for proj in resume_data['projects_list']`.
OptimizeProject(available, proj, reply) ==
    IF ~Falsy(Get(proj, "description", <<>>)) /\ Len(Get(proj, "description", <<>>)) > 10
    THEN EnhancedProject(proj, enhance_project_description(available, proj.description,
                                                           reply))
    ELSE [entry |-> Untouched(proj), calls |-> <<>>]

\* optimizations[key] = value under the condition.
SetIf(o, condition, key, value) == IF condition THEN Put(o, key, value) ELSE o

\* What optimize_entire_resume hands back once the four steps are through:
\* summary is the reply to step 1 (made when regenerate holds), es and ps
\* the passes over the two lists, suggested the skills of step 4.
Optimized(rd, regenerate, summary, es, ps, suggested) ==
    [none |-> FALSE,
     optimizations |->
         SetIf(SetIf(SetIf(SetIf(EmptyDict,
                                 regenerate /\ ~Falsy(summary.result)
                                     /\ ~StartsWith(summary.result, <<80, 108, 101, 97, 115, 101>> (* "Please" *)),
                                 "summary", summary.result),
                           es # <<>>, "experience_list",
                           [i \in 1..Len(es) |-> es[i].entry.returned]),
                     ps # <<>>, "projects_list",
                     [i \in 1..Len(ps) |-> ps[i].entry.returned]),
               suggested.result # <<>>, "suggested_skills", suggested.result),
     calls |-> (IF regenerate THEN summary.calls ELSE <<>>)
               \o Flatten([i \in 1..Len(es) |-> es[i].calls])
               \o Flatten([i \in 1..Len(ps) |-> ps[i].calls])
               \o suggested.calls,
     resume_data |->
         SetIf(SetIf(rd, es # <<>>, "experience_list",
                     [i \in 1..Len(es) |-> es[i].entry.given]),
               ps # <<>>, "projects_list", [i \in 1..Len(ps) |-> ps[i].entry.given])]

\* AIGenerator.optimize_entire_resume.  replies[<<what, i>>] is the reply to
\* the call made for entry i of a list (i = 0 for the summary and the skills);
\* none is TRUE when it returns None; resume_data is the argument after the call.
optimize_entire_resume(available, rd, replies) ==
    IF ~available \/ Falsy(Get(rd, "target_role", <<>>))
    THEN [none |-> TRUE, optimizations |-> EmptyDict, calls |-> <<>>, resume_data |-> rd]
    ELSE Optimized(rd,
                   Falsy(Get(rd, "summary", None)) \/ Len(Get(rd, "summary", <<>>)) < 50,
                   generate_professional_summary(available, rd.target_role,
                                                 replies[<<"summary", 0>>]),
                   [i \in 1..Len(Get(rd, "experience_list", <<>>)) |->
                       OptimizeExperience(available, rd.experience_list[i],
                                          replies[<<"experience", i>>])],
                   [i \in 1..Len(Get(rd, "projects_list", <<>>)) |->
                       OptimizeProject(available, rd.projects_list[i],
                                       replies[<<"projects", i>>])],
                   suggest_skills(available, rd.target_role, replies[<<"skills", 0>>]))

\* What a handler leaves: the session, the generate_content calls it made,
\* the messages it showed, and the exception that ended it ("" if none).
Handled(ss, calls, shown, raised) ==
    [session_state |-> ss, calls |-> calls, shown |-> shown, raised |-> raised]

\* The summary block once generate_professional_summary has returned.
SummaryHandled(ss, target_role, summary, ok) ==
    Handled(Put(IF ~Falsy(target_role) /\ ok THEN Put(ss, "summary", summary.result)
                ELSE ss,
                "_generate_summary_pending", FALSE),
            IF ~Falsy(target_role) THEN summary.calls ELSE <<>>,
            IF Falsy(target_role) THEN <<"warning">>
            ELSE IF ok THEN <<"success">> ELSE <<"error">>,
            "")

\* `if summary and not summary.startswith("Please") and not ...("Rate") and
\* not ...("Invalid")`
SummaryAccepted(t) ==
    /\ ~Falsy(t)
    /\ ~StartsWith(t, <<80, 108, 101, 97, 115, 101>> (* "Please" *))
    /\ ~StartsWith(t, <<82, 97, 116, 101>> (* "Rate" *))
    /\ ~StartsWith(t, <<73, 110, 118, 97, 108, 105, 100>> (* "Invalid" *))

SummaryMade(ss, target_role, summary) ==
    SummaryHandled(ss, target_role, summary, SummaryAccepted(summary.result))

\* A variant of the block below that leaves on the missing target role before
\* the flag is cleared.
GenerateSummaryPendingReturnsEarly(ss, available, replies) ==
    IF Get(ss, "_generate_summary_pending", FALSE) # TRUE THEN Handled(ss, <<>>, <<>>, "")
    ELSE IF Falsy(Get(ss, "target_role", <<>>)) THEN Handled(ss, <<>>, <<"warning">>, "")
    ELSE SummaryMade(ss, Get(ss, "target_role", <<>>),
                     generate_professional_summary(available, Get(ss, "target_role", <<>>),
                                                   replies[<<"generate_summary", 0>>]))

\* handle_ai_generation_pre_render: `if st.session_state.get('_generate_summary_pending')`
GenerateSummaryPending(ss, available, replies) ==
    IF Get(ss, "_generate_summary_pending", FALSE) # TRUE THEN Handled(ss, <<>>, <<>>, "")
    ELSE SummaryMade(ss, Get(ss, "target_role", <<>>),
                     generate_professional_summary(available, Get(ss, "target_role", <<>>),
                                                   replies[<<"generate_summary", 0>>]))

\* The dict the handler collects for optimize_entire_resume.
OptimizeArgs(ss) ==
    [name |-> Get(ss, "name", <<>>), target_role |-> Get(ss, "target_role", <<>>),
     experience_years |-> Get(ss, "experience_years", 0),
     technical_skills |-> Get(ss, "technical_skills", <<>>),
     soft_skills |-> Get(ss, "soft_skills", <<>>),
     education_list |-> Get(ss, "education_list", <<>>),
     experience_list |-> Get(ss, "experience_list", <<>>),
     projects_list |-> Get(ss, "projects_list", <<>>),
     summary |-> Get(ss, "summary", <<>>)]

\* `if optimizations:` and the four assignments under it.
ApplyOptimizations(ss, o) ==
    SetIf(SetIf(SetIf(SetIf(ss, "summary" \in DOMAIN o, "summary", Get(o, "summary", <<>>)),
                      "experience_list" \in DOMAIN o, "experience_list",
                      Get(o, "experience_list", <<>>)),
                "projects_list" \in DOMAIN o, "projects_list", Get(o, "projects_list", <<>>)),
          "suggested_skills" \in DOMAIN o, "technical_skills",
          IF ~Falsy(Get(ss, "technical_skills", <<>>))
          THEN Get(ss, "technical_skills", <<>>) \o <<44, 32>> (* ", " *)
               \o Join(Get(o, "suggested_skills", <<>>), <<44, 32>> (* ", " *))
          ELSE Join(Get(o, "suggested_skills", <<>>), <<44, 32>> (* ", " *)))

\* The optimize block once optimize_entire_resume has returned r.
OptimizeHandled(ss, target_role, r, applies) ==
    Handled(Put(IF ~Falsy(target_role) /\ applies
                THEN ApplyOptimizations(ss, r.optimizations) ELSE ss,
                "_optimize_all_pending", FALSE),
            IF ~Falsy(target_role) THEN r.calls ELSE <<>>,
            IF Falsy(target_role) THEN <<"warning">>
            ELSE IF applies THEN <<"success">> ELSE <<"error">>,
            "")

OptimizeMade(ss, target_role, r) ==
    OptimizeHandled(ss, target_role, r, ~r.none /\ DOMAIN r.optimizations # {})

\* handle_ai_generation_pre_render: `if st.session_state.get('_optimize_all_pending')`
OptimizeAllPending(ss, available, replies) ==
    IF Get(ss, "_optimize_all_pending", FALSE) # TRUE THEN Handled(ss, <<>>, <<>>, "")
    ELSE OptimizeMade(ss, Get(ss, "target_role", <<>>),
                      optimize_entire_resume(available, OptimizeArgs(ss), replies))

\* The two blocks one after the other.
BothBlocks(first, second) ==
    Handled(second.session_state, first.calls \o second.calls,
            first.shown \o second.shown, "")

AfterSummaryBlock(first, available, replies) ==
    BothBlocks(first, OptimizeAllPending(first.session_state, available, replies))

\* handle_ai_generation_pre_render
handle_ai_generation_pre_render(ss, available, replies) ==
    AfterSummaryBlock(GenerateSummaryPending(ss, available, replies), available, replies)

\* AIClient.generate_content
AIClient_generate_content(c, reply) ==
    IF c.client.cls = "None"
    THEN <<78, 111, 32, 65, 73, 32, 112, 114, 111, 118, 105, 100, 101, 114, 32, 99, 111, 110, 102, 105, 103, 117, 114, 101, 100, 46, 32, 80, 108, 101, 97, 115, 101, 32, 97, 100, 100, 32, 65, 80, 73, 32, 107, 101, 121, 115, 32, 116, 111, 32, 46, 101, 110, 118, 32, 102, 105, 108, 101, 46>> (* "No AI provider configured. Please add API keys to .env file." *)
    ELSE reply

\* `if response.startswith("Rate limit") or ...("Invalid") or ...("An error")`
CoverLetterResult(response) ==
    IF \/ StartsWith(response, <<82, 97, 116, 101, 32, 108, 105, 109, 105, 116>> (* "Rate limit" *))
       \/ StartsWith(response, <<73, 110, 118, 97, 108, 105, 100>> (* "Invalid" *))
       \/ StartsWith(response, <<65, 110, 32, 101, 114, 114, 111, 114>> (* "An error" *))
    THEN [success |-> FALSE, content |-> <<>>, calls |-> <<"cover_letter">>,
          error |-> response]
    ELSE [success |-> TRUE, content |-> sanitize_cover_letter(response),
          calls |-> <<"cover_letter">>, error |-> <<>>]

\* CoverLetterGenerator.generate_cover_letter
generate_cover_letter(c, name, job_title, reply) ==
    IF Falsy(name) \/ Falsy(job_title)
    THEN [success |-> FALSE, content |-> <<>>, calls |-> <<>>,
          error |-> <<78, 97, 109, 101, 32, 97, 110, 100, 32, 74, 111, 98, 32, 84, 105, 116, 108, 101, 32, 97, 114, 101, 32, 114, 101, 113, 117, 105, 114, 101, 100, 32, 116, 111, 32, 103, 101, 110, 101, 114, 97, 116, 101, 32, 97, 32, 99, 111, 118, 101, 114, 32, 108, 101, 116, 116, 101, 114, 46>> (* "Name and Job Title are required to generate a cover letter." *)]
    ELSE CoverLetterResult(AIClient_generate_content(c, reply))

\* The handler once the flag is cleared and the generator was asked.
CoverLetterHandled(cleared, res) ==
    IF res.success
    THEN Handled(Put(cleared, "cover_letter_content", res.content), res.calls,
                 <<"success">>, "")
    ELSE Handled(cleared, res.calls, <<"error">>, "")

\* The handler once the flag is cleared: the generator is CoverLetterGenerator().
CoverLetterRequested(cleared, name, job_title, generator, reply) ==
    IF Falsy(job_title) \/ Falsy(name) THEN Handled(cleared, <<>>, <<"error">>, "")
    ELSE IF generator.raised # "" THEN Handled(cleared, <<>>, <<>>, generator.raised)
    ELSE CoverLetterHandled(cleared, generate_cover_letter(generator, name, job_title, reply))

\* handle_cover_letter_generation_pre_render in the environment e.
handle_cover_letter_generation_pre_render(ss, e, reply) ==
    IF Get(ss, "_generate_cover_letter_pending", FALSE) # TRUE
    THEN Handled(ss, <<>>, <<>>, "")
    ELSE CoverLetterRequested(Put(ss, "_generate_cover_letter_pending", FALSE),
                              Get(ss, "name", <<>>), Get(ss, "cl_job_title", <<>>),
                              AIClient_init(e), reply)

(***************************************************************************)
(* The builder and cover-letter pages with the AI buttons: a click sets a  *)
(* pending flag and ends in st.rerun(); the script run that follows passes *)
(* the pre-render handlers before it draws the page.                       *)
(***************************************************************************)
MaxClicks == 1      \* button clicks in a session

\* The text of a provider's answer, by what was asked for.
OkText(what) ==
    IF what = "experience" THEN <<45, 32, 76, 101, 100, 32, 53, 10, 42, 32, 67, 117, 116, 32, 99, 111, 115, 116, 115, 10>>
    ELSE IF what = "projects" THEN <<66, 117, 105, 108, 116, 32, 97, 32, 42, 42, 115, 104, 111, 112, 42, 42, 46>>
    ELSE IF what = "skills" THEN <<71, 111, 44, 32, 82, 117, 115, 116, 44, 32>> (* "Go, Rust, " *)
    ELSE IF what = "cover_letter" THEN <<68, 101, 97, 114, 32, 72, 105, 114, 105, 110, 103, 32, 77, 97, 110, 97, 103, 101, 114, 44, 10, 10, 10, 73, 32, 97, 109, 32, 42, 42, 107, 101, 101, 110, 42, 42, 46, 10>>
    ELSE <<32, 83, 101, 97, 115, 111, 110, 101, 100, 32, 101, 110, 103, 105, 110, 101, 101, 114, 46, 32, 10>>

\* What generate_content returns when the provider answers.
OkReply(client, what) ==
    LET r == CHOOSE x \in Responses(client) : x.kind = "Ok"
    IN  generate_content(client, [r EXCEPT !.text = OkText(what)])

\* What generate_content returns when the call fails: the error strings.
Failures(client) ==
    {generate_content(client, r) : r \in {x \in Responses(client) : x.kind # "Ok"}}

\* Two of them: the rate limit and the timeout.
OptimizeFailures(client) ==
    {generate_content(client, r) :
        r \in {x \in Responses(client) : x.kind \in {"RateLimited", "Timeout"}}}

\* A project whose description is longer than 10 characters.
ProjLong ==
    [title |-> <<83, 104, 111, 112>> (* "Shop" *), duration |-> <<>>, technologies |-> <<>>, url |-> <<>>,
     description |-> <<83, 101, 108, 108, 115, 32, 98, 111, 111, 107, 115, 46>> (* "Sells books." *), enhanced_description |-> <<>>]

\* The sessions the AI buttons are clicked in: name, target role and job
\* title are typed in or not; the lists are empty or hold two entries each.
GenSessions ==
    { [initialize_session_state EXCEPT
          !.name = f[1], !.target_role = f[2], !.cl_job_title = f[3],
          !.experience_list = l[1], !.projects_list = l[2],
          !.summary = <<79, 108, 100, 32, 115, 117, 109, 109, 97, 114, 121>> (* "Old summary" *), !.technical_skills = <<71, 111, 44, 32, 67>> (* "Go, C" *),
          !.cover_letter_content = <<79, 108, 100, 32, 108, 101, 116, 116, 101, 114>> (* "Old letter" *)] :
        f \in { <<<<74, 97, 110, 101, 32, 68, 111, 101>> (* "Jane Doe" *), <<83, 82, 69>> (* "SRE" *), <<68, 101, 118>> (* "Dev" *)>>, <<<<>>, <<83, 82, 69>> (* "SRE" *), <<68, 101, 118>> (* "Dev" *)>>,
                <<<<74, 97, 110, 101, 32, 68, 111, 101>> (* "Jane Doe" *), <<>>, <<68, 101, 118>> (* "Dev" *)>>, <<<<74, 97, 110, 101, 32, 68, 111, 101>> (* "Jane Doe" *), <<83, 82, 69>> (* "SRE" *), <<>>>> },
        l \in { <<<<>>, <<>>>>, <<<<ExpFormEntry, ExpWordy>>, <<ProjFormEntry, ProjLong>>>> } }

\* Gemini configured, only OpenRouter configured, nothing configured.
GenEnvs ==
    { [GEMINI_API_KEY |-> <<115, 107, 45, 49>> (* "sk-1" *), OPENROUTER_API_KEY |-> <<115, 107, 45, 49>> (* "sk-1" *), gemini |-> "flash",
       openrouter |-> "ok"],
      [GEMINI_API_KEY |-> None, OPENROUTER_API_KEY |-> <<115, 107, 45, 49>> (* "sk-1" *), gemini |-> "flash",
       openrouter |-> "ok"],
      [GEMINI_API_KEY |-> None, OPENROUTER_API_KEY |-> <<>>, gemini |-> "flash",
       openrouter |-> "ok"] }

\* The page is shown for the first time: get_ai_generator() has built the
\* cached AIGenerator in the environment.
InitGen ==
    /\ env \in GenEnvs
    /\ ai_client = [client |-> AIClient_init(env).client,
                    provider |-> AIClient_init(env).provider]
    /\ ai_error = AIClient_init(env).raised
    /\ is_available = (AIClient_init(env).raised = "")
    /\ gen_log = [clicks |-> 0, page |-> "builder", calls |-> <<>>, last |-> <<>>]
    /\ gen_pc = "shown"
    /\ session_state \in GenSessions
    /\ saved_resumes = <<SavedFromForms>>
    /\ saved_cover_letters = <<>>
    /\ page = NoOutput
    /\ IdleSan
    /\ IdlePdf
    /\ IdleAi
    /\ IdleFn
    /\ IdleCl
    /\ IdlePv
    /\ IdleSt
    /\ IdleLs

\* A button whose handler sets a flag and calls st.rerun().
Click(flag, on_page) ==
    /\ gen_pc \in {"shown", "reran"}
    /\ gen_log.clicks < MaxClicks
    /\ session_state' = Put(session_state, flag, TRUE)
    /\ gen_log' = [gen_log EXCEPT !.clicks = @ + 1, !.page = on_page]
    /\ gen_pc' = "rerun"
    /\ page' = NoOutput
    /\ UNCHANGED <<env, ai_client, ai_error, is_available, exceptGen>>

\* handle_ai_generation: "Generate Summary".
ClickGenerateSummary == Click("_generate_summary_pending", "builder")

\* handle_ai_generation: "Optimize Entire Resume".
ClickOptimizeAll == Click("_optimize_all_pending", "builder")

\* render_cover_letter_generator: "Generate Cover Letter" / "Regenerate".
ClickGenerateCoverLetter == Click("_generate_cover_letter_pending", "cover_letter")

\* render_load_resume_section: "Load Resume" on a selected resume.
ClickLoadResume ==
    \E k \in 1..Len(saved_resumes) :
        LET resume_name == SplitOn(ResumeOption(saved_resumes[k]), <<32, 45, 32>> (* " - " *))[1]
            found == get_resume(resume_name)
        IN  /\ gen_pc \in {"shown", "reran"}
            /\ gen_log.clicks < MaxClicks
            /\ found # 0
            /\ session_state' = Put(Put(session_state, "_resume_to_load", saved_resumes[found]),
                                    "_load_resume_pending", TRUE)
            /\ gen_log' = [gen_log EXCEPT !.clicks = @ + 1, !.page = "builder"]
            /\ gen_pc' = "rerun"
            /\ page' = NoOutput
            /\ UNCHANGED <<env, ai_client, ai_error, is_available, exceptGen>>

\* The calls a script run on the session can come to make.
PendingSlots(ss) ==
    (IF Get(ss, "_generate_summary_pending", FALSE) = TRUE
     THEN {<<"generate_summary", 0>>} ELSE {})
    \cup (IF Get(ss, "_optimize_all_pending", FALSE) = TRUE
          THEN {<<"summary", 0>>, <<"skills", 0>>}
               \cup {<<"experience", i>> : i \in 1..Len(ss.experience_list)}
               \cup {<<"projects", i>> : i \in 1..Len(ss.projects_list)}
          ELSE {})
    \cup (IF Get(ss, "_generate_cover_letter_pending", FALSE) = TRUE
          THEN {<<"cover_letter", 0>>} ELSE {})

AllSlots(ss) ==
    {<<"generate_summary", 0>>, <<"summary", 0>>, <<"skills", 0>>, <<"cover_letter", 0>>}
    \cup {<<"experience", i>> : i \in 1..Len(ss.experience_list)}
    \cup {<<"projects", i>> : i \in 1..Len(ss.projects_list)}

\* What the provider answers to each call: the calls in `failing` get the
\* error string err, the others an answer.
Replies(ss, failing, err) ==
    [slot \in AllSlots(ss) |->
        IF slot \in failing THEN err ELSE OkReply(ai_client.provider, slot[1])]

ErrorChoices(ss) ==
    IF ai_client.provider = "None" THEN {<<>>}
    ELSE IF Get(ss, "_optimize_all_pending", FALSE) = TRUE
    THEN OptimizeFailures(ai_client.provider)
    ELSE Failures(ai_client.provider)

FailingChoices(ss) ==
    IF ai_client.provider = "None" THEN {PendingSlots(ss)} ELSE SUBSET PendingSlots(ss)

\* handle_resume_load_pre_render puts a resume into the session.
Loads(ss) ==
    Get(ss, "_load_resume_pending", FALSE) = TRUE /\ "_resume_to_load" \in DOMAIN ss

\* One run of the script on the page the user is on, up to the drawn page:
\* render_builder_page passes handle_resume_load_pre_render, then
\* handle_ai_generation_pre_render; render_cover_letter_page passes
\* handle_cover_letter_generation_pre_render.
RunPage(h, loads, next_pc) ==
    /\ session_state' = h.session_state
    /\ gen_log' = [gen_log EXCEPT
                      !.calls = @ \o (IF loads THEN <<"load">> ELSE <<>>) \o h.calls,
                      !.last = (IF loads THEN <<"load">> ELSE <<>>) \o h.calls]
    /\ page' = [NoOutput EXCEPT !.handler = gen_log.page,
                                !.error = IF h.raised # "" THEN h.raised
                                          ELSE IF h.shown = <<>> THEN ""
                                          ELSE h.shown[Len(h.shown)]]
    /\ gen_pc' = next_pc
    /\ UNCHANGED <<env, ai_client, ai_error, is_available, exceptGen>>

\* One script run in which the provider answers with `replies`.
ScriptRunWith(replies, next_pc) ==
    IF gen_log.page = "builder"
    THEN RunPage(handle_ai_generation_pre_render(
                     handle_resume_load_pre_render(session_state), is_available, replies),
                 Loads(session_state), next_pc)
    ELSE RunPage(handle_cover_letter_generation_pre_render(
                     session_state, env, replies[<<"cover_letter", 0>>]),
                 FALSE, next_pc)

ScriptRun(next_pc) ==
    \E failing \in FailingChoices(session_state) : \E err \in ErrorChoices(session_state) :
        ScriptRunWith(Replies(session_state, failing, err), next_pc)

\* The run st.rerun() starts after a click.
RerunAfterClick == gen_pc = "rerun" /\ ScriptRun("shown")

\* A run started by anything but those buttons (a widget was changed).
RerunWithoutClick == gen_pc \in {"shown", "reran"} /\ ScriptRun("reran")

NextGen ==
    \/ ClickGenerateSummary
    \/ ClickOptimizeAll
    \/ ClickGenerateCoverLetter
    \/ ClickLoadResume
    \/ RerunAfterClick
    \/ RerunWithoutClick

SpecGen == InitGen /\ [][NextGen]_vars

\* Every error string a client's generate_content can return.
ErrorStrings == Failures("Gemini") \cup Failures("OpenRouter")

\* The fields of the document the AI handlers write.
DocumentTexts(ss) ==
    {ss.summary, ss.cover_letter_content}
    \cup UNION {{ss.experience_list[i].bullet_points[k] :
                    k \in 1..Len(Get(ss.experience_list[i], "bullet_points", <<>>))} :
                i \in 1..Len(ss.experience_list)}
    \cup {Get(ss.projects_list[i], "enhanced_description", <<>>) :
             i \in 1..Len(ss.projects_list)}

\* C24: when a generation call fails, the error string the client returned
\* is never written into the document: summary, bullet_points,
\* enhanced_description, technical_skills and cover_letter_content hold no
\* error string.
C24_ErrorStringsNeverWritten ==
    gen_pc # "idle" =>
        /\ DocumentTexts(session_state) \cap ErrorStrings = {}
        /\ \A e \in ErrorStrings : ~Contains(session_state.technical_skills, e)


\* ---------------------------------------------------------------------
\* The pending-request flags
\* ---------------------------------------------------------------------

PendingFlags ==
    {"_generate_summary_pending", "_optimize_all_pending",
     "_generate_cover_letter_pending", "_load_resume_pending"}

\* C25: once the run that follows a click has passed its pre-render handler,
\* none of the four pending flags is set, whatever path the handler took
\* (success, provider failure, missing target role, job title or name), and
\* a run that no click started makes no generation call and loads nothing.
C25_PendingFlagConsumedOnce ==
    /\ gen_pc \in {"shown", "reran"} =>
           \A flag \in PendingFlags : Get(session_state, flag, FALSE) # TRUE
    /\ gen_pc = "reran" => gen_log.last = <<>>

\* A click was handled with a generation call or a load, its flag is stored
\* as False, and a later run without a click has passed.
C25_Witness ==
    /\ gen_pc = "reran"
    /\ gen_log.clicks >= 1
    /\ gen_log.calls # <<>>
    /\ gen_log.last = <<>>
    /\ \E flag \in PendingFlags :
           flag \in DOMAIN session_state /\ session_state[flag] = FALSE


\* ---------------------------------------------------------------------
\* optimize_entire_resume and the lists it is given
\* ---------------------------------------------------------------------

\* The returned list, or the given one where the result has none.
ReturnedList(r, rd, key) ==
    IF key \in DOMAIN r.optimizations THEN r.optimizations[key] ELSE rd[key]

SameEntries(returned, given, fields) ==
    /\ Len(returned) = Len(given)
    /\ \A i \in 1..Len(given) : \A f \in fields : returned[i][f] = given[i][f]

\* The result r of optimize_entire_resume on the resume record rd.
KeepsTheRecord(r, rd) ==
    /\ r.resume_data = rd
    /\ SameEntries(ReturnedList(r, rd, "experience_list"), rd.experience_list,
                   {"job_title", "company"})
    /\ SameEntries(ReturnedList(r, rd, "projects_list"), rd.projects_list, {"title"})
    /\ "experience_list" \in DOMAIN r.optimizations => rd.experience_list # <<>>
    /\ "projects_list" \in DOMAIN r.optimizations => rd.projects_list # <<>>

\* The outcomes of the call the pending "Optimize Entire Resume" request is
\* about to make: one per choice of the failing calls and of the error.
Optimizations ==
    { optimize_entire_resume(is_available, OptimizeArgs(session_state),
                             Replies(session_state, failing, err)) :
        failing \in FailingChoices(session_state), err \in ErrorChoices(session_state) }

OptimizeRequested ==
    gen_pc = "rerun" /\ Get(session_state, "_optimize_all_pending", FALSE) = TRUE

\* C29: optimize_entire_resume leaves the resume record and its entries as
\* they were given, and the experience_list and projects_list it returns have
\* the length and order of the given lists, each entry keeping job_title and
\* company (or title), whichever per-entry calls succeed or fail.
C29_OptimizeKeepsInputAndOrder ==
    OptimizeRequested =>
        \A r \in Optimizations : KeepsTheRecord(r, OptimizeArgs(session_state))

\* The request is made on two experiences and two projects; one outcome
\* enhances an entry (bullet_points written on the copy) and hands another
\* entry on as it was given.
C29_Witness ==
    /\ OptimizeRequested
    /\ Len(OptimizeArgs(session_state).experience_list) = 2
    /\ \E r \in Optimizations :
           LET rd == OptimizeArgs(session_state)
           IN  /\ ~r.none
               /\ "experience_list" \in DOMAIN r.optimizations
               /\ "projects_list" \in DOMAIN r.optimizations
               /\ r.optimizations.experience_list[1].bullet_points # <<>>
               /\ rd.experience_list[1].bullet_points = <<>>
               /\ \E i \in 1..Len(rd.projects_list) :
                      r.optimizations.projects_list[i] = rd.projects_list[i]
               /\ \E i \in 1..Len(rd.projects_list) :
                      r.optimizations.projects_list[i] # rd.projects_list[i]


(***************************************************************************)
(* LocalStorage driven from the Save, Load and cover-letter sections,      *)
(* starting from an empty store.                                           *)
(***************************************************************************)
MaxSaves == 4       \* save_resume and save_cover_letter calls in a behaviour

\* datetime.now().isoformat() at the n-th reading of the clock.
Stamp(n) == <<50, 48, 50, 54, 45, 49, 49, 45, 48, 54, 84, 49, 48, 58, 48, 48, 58>> (* "2026-11-06T10:00:" *) \o (IF n < 10 THEN <<48>> ELSE <<>>) \o DecStr(n)

\* The index of the first entry of that name, or 0: the `for i, ... break` loop.
ExistingIndex(list, name) ==
    LET hits == {i \in 1..Len(list) : list[i].name = name}
    IN  IF hits = {} THEN 0 ELSE CHOOSE i \in hits : \A j \in hits : i <= j

\* `if existing_index is not None: ... else: append`
StoreEntry(list, entry) ==
    LET existing_index == ExistingIndex(list, entry.name)
    IN  IF existing_index # 0
        THEN [list EXCEPT ![existing_index] =
                 [entry EXCEPT !.created_at = list[existing_index].created_at]]
        ELSE Append(list, entry)

\* A variant of save_resume that appends whatever is stored already.
save_resume_appending(resumes, resume_name, data, now) ==
    Append(resumes, [name |-> resume_name,
                     target_role |-> Get(data, "target_role", <<>>),
                     data |-> data,
                     created_at |-> Stamp(now), updated_at |-> Stamp(now + 1)])

\* LocalStorage.save_resume: the list it leaves; `now` counts the clock readings.
save_resume(resumes, resume_name, data, now) ==
    StoreEntry(resumes, [name |-> resume_name,
                         target_role |-> Get(data, "target_role", <<>>),
                         data |-> data,
                         created_at |-> Stamp(now), updated_at |-> Stamp(now + 1)])

\* LocalStorage.save_cover_letter
save_cover_letter(letters, cover_letter_name, resume_name, company, job_title, content, now) ==
    StoreEntry(letters, [name |-> cover_letter_name, resume_name |-> resume_name,
                         company |-> company, job_title |-> job_title,
                         content |-> content,
                         created_at |-> Stamp(now), updated_at |-> Stamp(now + 1)])

\* A variant of delete_resume that leaves the cover letters alone.
delete_resume_only(resumes, letters, resume_name) ==
    LET Others(r) == r.name # resume_name
    IN  [saved_resumes |-> SelectSeq(resumes, Others), saved_cover_letters |-> letters]

\* LocalStorage.delete_resume: the two lists it leaves.
delete_resume(resumes, letters, resume_name) ==
    LET Others(r) == r.name # resume_name
        NotOf(cl) == Get(cl, "resume_name", None) # resume_name
    IN  [saved_resumes |-> SelectSeq(resumes, Others),
         saved_cover_letters |-> SelectSeq(letters, NotOf)]

\* What is typed into "Resume Name" and "Cover Letter Name".
ResumeNames == {<<67, 86>> (* "CV" *), <<67, 86, 32, 45, 32, 71, 111, 111, 103, 108, 101>> (* "CV - Google" *), <<32>>}

CoverLetterNames == {<<99, 108, 45, 97, 99, 109, 101>> (* "cl-acme" *), <<71, 111, 111, 103, 108, 101, 32, 45, 32, 68, 101, 118>> (* "Google - Dev" *), <<>>}

\* The sessions the sections are used in: the personal name is filled in and
\* the target role is not, or the other way round; a cover letter has been
\* generated.
ShelfSessions ==
    { [initialize_session_state EXCEPT
          !.name = f[1], !.target_role = f[2], !.cl_company = <<65, 99, 109, 101>> (* "Acme" *),
          !.cl_job_title = <<68, 101, 118>> (* "Dev" *), !.cover_letter_content = <<68, 101, 97, 114, 32, 65, 44, 10, 10, 66, 121, 101>>] :
        f \in { <<<<74, 97, 110, 101, 32, 68, 111, 101>> (* "Jane Doe" *), <<>>>>, <<<<>>, <<83, 82, 69>> (* "SRE" *)>> } }

InitShelf ==
    /\ saved_resumes = <<>>
    /\ saved_cover_letters = <<>>
    /\ session_state \in ShelfSessions
    /\ page = NoOutput
    /\ ls_call = NoCall
    /\ ls_clock = 0
    /\ IdleSan
    /\ IdlePdf
    /\ IdleAi
    /\ IdleFn
    /\ IdleCl
    /\ IdlePv
    /\ IdleSt
    /\ IdleGen

\* A LocalStorage call that returned True, with the lists it found.
Called(op, args) ==
    [op |-> op, args |-> args, returned |-> TRUE,
     before |-> <<saved_resumes, saved_cover_letters>>]

\* render_save_resume_section: a name is typed and "Save" clicked.
SaveResumeClicked ==
    \E resume_name \in ResumeNames :
        LET data == CollectResumeData(session_state)
        IN  /\ ls_clock < 2 * MaxSaves
            /\ IF Strip(resume_name) = <<>>
               THEN /\ page' = Output("save_resume", FALSE, NoBytes, None, FALSE,
                                      "Please enter a resume name")
                    /\ UNCHANGED <<saved_resumes, lsVars>>
               ELSE IF Falsy(Get(data, "name", None))
               THEN /\ page' = Output("save_resume", FALSE, NoBytes, None, FALSE,
                                      "Please fill in your name in Personal Information")
                    /\ UNCHANGED <<saved_resumes, lsVars>>
               ELSE /\ saved_resumes' = save_resume(saved_resumes, resume_name,
                                                    data, ls_clock)
                    /\ ls_call' = Called("save_resume", <<resume_name>>)
                    /\ ls_clock' = ls_clock + 2
                    /\ page' = NoOutput
            /\ UNCHANGED <<saved_cover_letters, session_state, exceptLs>>

\* render_save_cover_letter_section: a name is typed and "Save" clicked.
SaveCoverLetterClicked ==
    \E cover_letter_name \in CoverLetterNames :
        /\ ls_clock < 2 * MaxSaves
        /\ ~Falsy(Get(session_state, "cover_letter_content", None))
        /\ IF Strip(cover_letter_name) = <<>>
           THEN /\ page' = Output("save_cover_letter", FALSE, NoBytes, None, FALSE,
                                  "Please enter a name for the cover letter")
                /\ UNCHANGED <<saved_cover_letters, lsVars>>
           ELSE /\ saved_cover_letters' =
                       save_cover_letter(saved_cover_letters, cover_letter_name,
                                         Get(session_state, "cl_linked_resume_name",
                                             <<85, 110, 108, 105, 110, 107, 101, 100>> (* "Unlinked" *)),
                                         Get(session_state, "cl_company", <<>>),
                                         Get(session_state, "cl_job_title", <<>>),
                                         Get(session_state, "cover_letter_content", <<>>),
                                         ls_clock)
                /\ ls_call' = Called("save_cover_letter", <<cover_letter_name>>)
                /\ ls_clock' = ls_clock + 2
                /\ page' = NoOutput
        /\ UNCHANGED <<saved_resumes, session_state, exceptLs>>

\* The keys confirm_delete_<resume_name> that are set in the session.
ConfirmDelete(ss) == Get(ss, "confirm_delete", {})

\* render_load_resume_section: an option is selected and "Delete" clicked; the
\* first click asks for a second one, the second calls delete_resume.
DeleteClicked ==
    \E k \in 1..Len(saved_resumes) :
        LET selected == ResumeOption(saved_resumes[k])
            resume_name == SplitOn(selected, <<32, 45, 32>> (* " - " *))[1]
            left == delete_resume(saved_resumes, saved_cover_letters, resume_name)
        IN  /\ get_resume(resume_name) # 0
            /\ IF resume_name \in ConfirmDelete(session_state)
               THEN /\ saved_resumes' = left.saved_resumes
                    /\ saved_cover_letters' = left.saved_cover_letters
                    /\ ls_call' = Called("delete_resume", <<resume_name>>)
                    /\ session_state' = Put(session_state, "confirm_delete",
                                            ConfirmDelete(session_state) \ {resume_name})
                    /\ page' = NoOutput
               ELSE /\ session_state' = Put(session_state, "confirm_delete",
                                            ConfirmDelete(session_state) \cup {resume_name})
                    /\ page' = Output("delete_resume", FALSE, NoBytes, None, FALSE,
                                      "Click Delete again to confirm")
                    /\ UNCHANGED <<saved_resumes, saved_cover_letters, ls_call>>
            /\ UNCHANGED <<ls_clock, exceptLs>>

\* The option render_resume_selector_for_cover_letter shows for a saved resume.
CoverLetterOption(r) ==
    r.name \o <<32, 45, 32>> (* " - " *) \o (IF Falsy(r.target_role) THEN <<78, 111, 32, 114, 111, 108, 101, 32, 115, 112, 101, 99, 105, 102, 105, 101, 100>> (* "No role specified" *)
                        ELSE r.target_role)

\* render_resume_selector_for_cover_letter: "Load Data" on the selected resume
\* links the cover letter to it.
LoadDataForCoverLetter ==
    \E k \in 1..Len(saved_resumes) :
        LET selected == CoverLetterOption(saved_resumes[k])
            same == {i \in 1..Len(saved_resumes) :
                        CoverLetterOption(saved_resumes[i]) = selected}
            resume_name == saved_resumes[CHOOSE i \in same : \A j \in same : j <= i].name
            resume == saved_resumes[get_resume(resume_name)]
            linked == Put(session_state, "cl_linked_resume_name", resume.name)
        IN  /\ session_state' =
                   [linked EXCEPT !.name = Get(resume.data, "name", <<>>),
                                  !.email = Get(resume.data, "email", <<>>),
                                  !.phone = Get(resume.data, "phone", <<>>),
                                  !.location = Get(resume.data, "location", <<>>)]
            /\ page' = NoOutput
            /\ UNCHANGED <<saved_resumes, saved_cover_letters, lsVars, exceptLs>>

\* LocalStorage.clear_all_data
ClearAllCalled ==
    /\ saved_resumes # <<>> \/ saved_cover_letters # <<>>
    /\ saved_resumes' = <<>>
    /\ saved_cover_letters' = <<>>
    /\ ls_call' = Called("clear_all_data", <<>>)
    /\ UNCHANGED <<ls_clock, session_state, page, exceptLs>>

NextShelf ==
    \/ SaveResumeClicked
    \/ SaveCoverLetterClicked
    \/ DeleteClicked
    \/ LoadDataForCoverLetter
    \/ ClearAllCalled

SpecShelf == InitShelf /\ [][NextShelf]_vars


UniqueNames(list) ==
    \A i, j \in 1..Len(list) : list[i].name = list[j].name => i = j

\* The list `after` is `before` with an entry saved under the name: in the
\* place of the entry that had the name, with its created_at, or at the end.
SavedInPlace(before, after, name) ==
    LET at == ExistingIndex(before, name)
    IN  IF at = 0
        THEN /\ Len(after) = Len(before) + 1
             /\ SubSeq(after, 1, Len(before)) = before
             /\ after[Len(after)].name = name
        ELSE /\ Len(after) = Len(before)
             /\ after[at].name = name
             /\ after[at].created_at = before[at].created_at
             /\ \A i \in 1..Len(before) : i # at => after[i] = before[i]

\* C26: from an empty store, whatever saves, deletions and clearings were
\* made, no two saved resumes and no two saved cover letters share a name; a
\* save under a stored name replaces that entry where it stands and keeps
\* its created_at instead of appending a second entry.
C26_NamesStayUnique ==
    /\ UniqueNames(saved_resumes)
    /\ UniqueNames(saved_cover_letters)
    /\ ls_call.op = "save_resume" =>
           SavedInPlace(ls_call.before[1], saved_resumes, ls_call.args[1])
    /\ ls_call.op = "save_cover_letter" =>
           SavedInPlace(ls_call.before[2], saved_cover_letters, ls_call.args[1])

\* The first of two stored resumes has just been saved again: it is still
\* the first, with the created_at of the first save and a later updated_at.
C26_Witness ==
    /\ ls_call.op = "save_resume"
    /\ Len(ls_call.before[1]) = 2
    /\ ExistingIndex(ls_call.before[1], ls_call.args[1]) = 1
    /\ Len(saved_resumes) = 2
    /\ saved_resumes[1].name = ls_call.args[1]
    /\ saved_resumes[1].created_at = ls_call.before[1][1].created_at
    /\ saved_resumes[1].updated_at # ls_call.before[1][1].updated_at

\* C27: after delete_resume(n) returned True no saved resume has the name n
\* and no saved cover letter the resume_name n, and the resumes of other
\* names and the cover letters of other resumes are the ones stored before,
\* unchanged and in their order.
C27_DeleteRemovesOnlyThatResume ==
    (ls_call.op = "delete_resume" /\ ls_call.returned) =>
        LET n == ls_call.args[1]
            Others(r) == r.name # n
            NotOf(cl) == cl.resume_name # n
        IN  /\ \A i \in 1..Len(saved_resumes) : saved_resumes[i].name # n
            /\ \A i \in 1..Len(saved_cover_letters) :
                   saved_cover_letters[i].resume_name # n
            /\ saved_resumes = SelectSeq(ls_call.before[1], Others)
            /\ saved_cover_letters = SelectSeq(ls_call.before[2], NotOf)

\* A resume with a cover letter of its own was deleted from a store that held
\* another resume and a cover letter of another resume; those two are left.
C27_Witness ==
    /\ ls_call.op = "delete_resume"
    /\ ls_call.returned
    /\ Len(ls_call.before[1]) = 2
    /\ Len(ls_call.before[2]) = 2
    /\ Len(saved_resumes) = 1
    /\ Len(saved_cover_letters) = 1
    /\ saved_cover_letters[1].resume_name = saved_resumes[1].name

\* The name the load section works with for the selected resume.
RecoveredName(r) == SplitOn(ResumeOption(r), <<32, 45, 32>> (* " - " *))[1]

\* C28: for every saved resume the name recovered from its selector label
\* (the text before the first ' - ') is the name it was saved under, so that
\* get_resume finds the selected resume.
C28_LabelGivesBackTheName ==
    \A k \in 1..Len(saved_resumes) :
        /\ RecoveredName(saved_resumes[k]) = saved_resumes[k].name
        /\ get_resume(RecoveredName(saved_resumes[k])) = k


\* C30: a call of import_data that returns False leaves saved_resumes and
\* saved_cover_letters as they were before the call; it never replaces one
\* of the two and leaves the other.
C30_FailedImportChangesNothing ==
    [][(ls_call'.op = "import_data" /\ ls_call' # ls_call /\ ~ls_call'.returned)
          => (saved_resumes' = saved_resumes
              /\ saved_cover_letters' = saved_cover_letters)]_vars

\* A JSON string that holds the word 'resumes' was uploaded to a store with
\* resumes and cover letters: indexing it raised, import_data returned False,
\* and both lists are the ones found.
C30_Witness ==
    /\ ls_call.op = "import_data"
    /\ ~ls_call.returned
    /\ st_pc = "store"
    /\ "str" \in DOMAIN ls_call.args[1]
    /\ saved_resumes # <<>>
    /\ saved_cover_letters # <<>>
    /\ saved_resumes = ls_call.before[1]
    /\ saved_cover_letters = ls_call.before[2]

=============================================================================
